---- MODULE Spec2Model ----
(***************************************************************************)
(* bluetooth_2_usb/evdev_adapter.py: the translation of evdev key, button  *)
(* and relative-axis events into HID usage ids and mouse movements, with   *)
(* the two memoization caches of the diagnostic name lookups.              *)
(***************************************************************************)
EXTENDS Integers, Sequences, FiniteSets, TLC

(* Python's None where the code expects an integer (a usage id, an attribute
   value): no scan code and no usage id is negative. *)
None == -1
(* The value of an attribute that is no integer (a docstring, a method). It is
   equal to no integer and not to None. *)
Obj == -2
(* Python's None where the code expects a name. *)
NoName == "None"

(* memo: the two memoization caches of the module.  log: the calls made so
   far, each with its arguments and what it returned.  threads: the calls in
   progress in each thread, when several run at once. *)
VARIABLES memo, log, threads

vars == <<memo, log, threads>>

(* The namespaces the source imports and looks names up in.  Their attributes
   are not part of evdev_adapter.py: ecodes carries the key, button and
   relative-axis constants of the Linux input event codes, the three classes
   the usage ids of the HID usage tables under the names the source uses.  Of
   the attributes that are no constants, which dir() lists as well and whose
   values are no integers and not None (a class or module with a docstring is
   assumed), each namespace has two here.

   The scan-code namespace, each attribute with its value, in the order dir()
   lists them (sorted by name).  First the names that start with BTN_ ... *)
ecodes_BTN_attrs ==
  <<
    <<"BTN_0", 256>>, <<"BTN_1", 257>>, <<"BTN_2", 258>>, <<"BTN_3", 259>>, <<"BTN_4", 260>>,
    <<"BTN_5", 261>>, <<"BTN_6", 262>>, <<"BTN_7", 263>>, <<"BTN_8", 264>>, <<"BTN_9", 265>>,
    <<"BTN_A", 304>>, <<"BTN_B", 305>>, <<"BTN_BACK", 278>>, <<"BTN_BASE", 294>>,
    <<"BTN_BASE2", 295>>, <<"BTN_BASE3", 296>>, <<"BTN_BASE4", 297>>, <<"BTN_BASE5", 298>>,
    <<"BTN_BASE6", 299>>, <<"BTN_C", 306>>, <<"BTN_DEAD", 303>>, <<"BTN_DIGI", 320>>,
    <<"BTN_DPAD_DOWN", 545>>, <<"BTN_DPAD_LEFT", 546>>, <<"BTN_DPAD_RIGHT", 547>>,
    <<"BTN_DPAD_UP", 544>>, <<"BTN_EAST", 305>>, <<"BTN_EXTRA", 276>>, <<"BTN_FORWARD", 277>>,
    <<"BTN_GAMEPAD", 304>>, <<"BTN_GEAR_DOWN", 336>>, <<"BTN_GEAR_UP", 337>>,
    <<"BTN_JOYSTICK", 288>>, <<"BTN_LEFT", 272>>, <<"BTN_MIDDLE", 274>>, <<"BTN_MISC", 256>>,
    <<"BTN_MODE", 316>>, <<"BTN_MOUSE", 272>>, <<"BTN_NORTH", 307>>, <<"BTN_PINKIE", 293>>,
    <<"BTN_RIGHT", 273>>, <<"BTN_SELECT", 314>>, <<"BTN_SIDE", 275>>, <<"BTN_SOUTH", 304>>,
    <<"BTN_START", 315>>, <<"BTN_STYLUS", 331>>, <<"BTN_STYLUS2", 332>>,
    <<"BTN_STYLUS3", 329>>, <<"BTN_TASK", 279>>, <<"BTN_THUMB", 289>>, <<"BTN_THUMB2", 290>>,
    <<"BTN_THUMBL", 317>>, <<"BTN_THUMBR", 318>>, <<"BTN_TL", 310>>, <<"BTN_TL2", 312>>,
    <<"BTN_TOOL_AIRBRUSH", 324>>, <<"BTN_TOOL_BRUSH", 322>>, <<"BTN_TOOL_DOUBLETAP", 333>>,
    <<"BTN_TOOL_FINGER", 325>>, <<"BTN_TOOL_LENS", 327>>, <<"BTN_TOOL_MOUSE", 326>>,
    <<"BTN_TOOL_PEN", 320>>, <<"BTN_TOOL_PENCIL", 323>>, <<"BTN_TOOL_QUADTAP", 335>>,
    <<"BTN_TOOL_QUINTTAP", 328>>, <<"BTN_TOOL_RUBBER", 321>>, <<"BTN_TOOL_TRIPLETAP", 334>>,
    <<"BTN_TOP", 291>>, <<"BTN_TOP2", 292>>, <<"BTN_TOUCH", 330>>, <<"BTN_TR", 311>>,
    <<"BTN_TR2", 313>>, <<"BTN_TRIGGER", 288>>, <<"BTN_TRIGGER_HAPPY", 704>>,
    <<"BTN_TRIGGER_HAPPY1", 704>>, <<"BTN_TRIGGER_HAPPY10", 713>>,
    <<"BTN_TRIGGER_HAPPY11", 714>>, <<"BTN_TRIGGER_HAPPY12", 715>>,
    <<"BTN_TRIGGER_HAPPY13", 716>>, <<"BTN_TRIGGER_HAPPY14", 717>>,
    <<"BTN_TRIGGER_HAPPY15", 718>>, <<"BTN_TRIGGER_HAPPY16", 719>>,
    <<"BTN_TRIGGER_HAPPY17", 720>>, <<"BTN_TRIGGER_HAPPY18", 721>>,
    <<"BTN_TRIGGER_HAPPY19", 722>>, <<"BTN_TRIGGER_HAPPY2", 705>>,
    <<"BTN_TRIGGER_HAPPY20", 723>>, <<"BTN_TRIGGER_HAPPY21", 724>>,
    <<"BTN_TRIGGER_HAPPY22", 725>>, <<"BTN_TRIGGER_HAPPY23", 726>>,
    <<"BTN_TRIGGER_HAPPY24", 727>>, <<"BTN_TRIGGER_HAPPY25", 728>>,
    <<"BTN_TRIGGER_HAPPY26", 729>>, <<"BTN_TRIGGER_HAPPY27", 730>>,
    <<"BTN_TRIGGER_HAPPY28", 731>>, <<"BTN_TRIGGER_HAPPY29", 732>>,
    <<"BTN_TRIGGER_HAPPY3", 706>>, <<"BTN_TRIGGER_HAPPY30", 733>>,
    <<"BTN_TRIGGER_HAPPY31", 734>>, <<"BTN_TRIGGER_HAPPY32", 735>>,
    <<"BTN_TRIGGER_HAPPY33", 736>>, <<"BTN_TRIGGER_HAPPY34", 737>>,
    <<"BTN_TRIGGER_HAPPY35", 738>>, <<"BTN_TRIGGER_HAPPY36", 739>>,
    <<"BTN_TRIGGER_HAPPY37", 740>>, <<"BTN_TRIGGER_HAPPY38", 741>>,
    <<"BTN_TRIGGER_HAPPY39", 742>>, <<"BTN_TRIGGER_HAPPY4", 707>>,
    <<"BTN_TRIGGER_HAPPY40", 743>>, <<"BTN_TRIGGER_HAPPY5", 708>>,
    <<"BTN_TRIGGER_HAPPY6", 709>>, <<"BTN_TRIGGER_HAPPY7", 710>>,
    <<"BTN_TRIGGER_HAPPY8", 711>>, <<"BTN_TRIGGER_HAPPY9", 712>>, <<"BTN_WEST", 308>>,
    <<"BTN_WHEEL", 336>>, <<"BTN_X", 307>>, <<"BTN_Y", 308>>, <<"BTN_Z", 309>>
  >>

(* ... then the names that start with KEY_ ... *)
ecodes_KEY_attrs ==
  <<
    <<"KEY_0", 11>>, <<"KEY_1", 2>>, <<"KEY_102ND", 86>>, <<"KEY_10CHANNELSDOWN", 441>>,
    <<"KEY_10CHANNELSUP", 440>>, <<"KEY_2", 3>>, <<"KEY_3", 4>>, <<"KEY_3D_MODE", 623>>,
    <<"KEY_4", 5>>, <<"KEY_5", 6>>, <<"KEY_6", 7>>, <<"KEY_7", 8>>, <<"KEY_8", 9>>,
    <<"KEY_9", 10>>, <<"KEY_A", 30>>, <<"KEY_AB", 406>>, <<"KEY_ADDRESSBOOK", 429>>,
    <<"KEY_AGAIN", 129>>, <<"KEY_ALL_APPLICATIONS", 204>>, <<"KEY_ALS_TOGGLE", 560>>,
    <<"KEY_ALTERASE", 222>>, <<"KEY_ANGLE", 371>>, <<"KEY_APOSTROPHE", 40>>,
    <<"KEY_APPSELECT", 580>>, <<"KEY_ARCHIVE", 361>>, <<"KEY_ASPECT_RATIO", 375>>,
    <<"KEY_ASSISTANT", 583>>, <<"KEY_ATTENDANT_OFF", 540>>, <<"KEY_ATTENDANT_ON", 539>>,
    <<"KEY_ATTENDANT_TOGGLE", 541>>, <<"KEY_AUDIO", 392>>, <<"KEY_AUDIO_DESC", 622>>,
    <<"KEY_AUTOPILOT_ENGAGE_TOGGLE", 637>>, <<"KEY_AUX", 390>>, <<"KEY_B", 48>>,
    <<"KEY_BACK", 158>>, <<"KEY_BACKSLASH", 43>>, <<"KEY_BACKSPACE", 14>>,
    <<"KEY_BASSBOOST", 209>>, <<"KEY_BATTERY", 236>>, <<"KEY_BLUE", 401>>,
    <<"KEY_BLUETOOTH", 237>>, <<"KEY_BOOKMARKS", 156>>, <<"KEY_BREAK", 411>>,
    <<"KEY_BRIGHTNESSDOWN", 224>>, <<"KEY_BRIGHTNESSUP", 225>>, <<"KEY_BRIGHTNESS_AUTO", 244>>,
    <<"KEY_BRIGHTNESS_CYCLE", 243>>, <<"KEY_BRIGHTNESS_MAX", 593>>,
    <<"KEY_BRIGHTNESS_MENU", 649>>, <<"KEY_BRIGHTNESS_MIN", 592>>,
    <<"KEY_BRIGHTNESS_TOGGLE", 431>>, <<"KEY_BRIGHTNESS_ZERO", 244>>, <<"KEY_BRL_DOT1", 497>>,
    <<"KEY_BRL_DOT10", 506>>, <<"KEY_BRL_DOT2", 498>>, <<"KEY_BRL_DOT3", 499>>,
    <<"KEY_BRL_DOT4", 500>>, <<"KEY_BRL_DOT5", 501>>, <<"KEY_BRL_DOT6", 502>>,
    <<"KEY_BRL_DOT7", 503>>, <<"KEY_BRL_DOT8", 504>>, <<"KEY_BRL_DOT9", 505>>,
    <<"KEY_BUTTONCONFIG", 576>>, <<"KEY_C", 46>>, <<"KEY_CALC", 140>>, <<"KEY_CALENDAR", 397>>,
    <<"KEY_CAMERA", 212>>, <<"KEY_CAMERA_ACCESS_DISABLE", 588>>,
    <<"KEY_CAMERA_ACCESS_ENABLE", 587>>, <<"KEY_CAMERA_ACCESS_TOGGLE", 589>>,
    <<"KEY_CAMERA_DOWN", 536>>, <<"KEY_CAMERA_FOCUS", 528>>, <<"KEY_CAMERA_LEFT", 537>>,
    <<"KEY_CAMERA_RIGHT", 538>>, <<"KEY_CAMERA_UP", 535>>, <<"KEY_CAMERA_ZOOMIN", 533>>,
    <<"KEY_CAMERA_ZOOMOUT", 534>>, <<"KEY_CANCEL", 223>>, <<"KEY_CAPSLOCK", 58>>,
    <<"KEY_CD", 383>>, <<"KEY_CHANNEL", 363>>, <<"KEY_CHANNELDOWN", 403>>,
    <<"KEY_CHANNELUP", 402>>, <<"KEY_CHAT", 216>>, <<"KEY_CLEAR", 355>>,
    <<"KEY_CLEARVU_SONAR", 646>>, <<"KEY_CLOSE", 206>>, <<"KEY_CLOSECD", 160>>,
    <<"KEY_CNT", 768>>, <<"KEY_COFFEE", 152>>, <<"KEY_COMMA", 51>>, <<"KEY_COMPOSE", 127>>,
    <<"KEY_COMPUTER", 157>>, <<"KEY_CONFIG", 171>>, <<"KEY_CONNECT", 218>>,
    <<"KEY_CONTEXT_MENU", 438>>, <<"KEY_CONTROLPANEL", 579>>, <<"KEY_COPY", 133>>,
    <<"KEY_CUT", 137>>, <<"KEY_CYCLEWINDOWS", 154>>, <<"KEY_D", 32>>, <<"KEY_DASHBOARD", 204>>,
    <<"KEY_DATA", 631>>, <<"KEY_DATABASE", 426>>, <<"KEY_DELETE", 111>>,
    <<"KEY_DELETEFILE", 146>>, <<"KEY_DEL_EOL", 448>>, <<"KEY_DEL_EOS", 449>>,
    <<"KEY_DEL_LINE", 451>>, <<"KEY_DICTATE", 586>>, <<"KEY_DIGITS", 413>>,
    <<"KEY_DIRECTION", 153>>, <<"KEY_DIRECTORY", 394>>, <<"KEY_DISPLAYTOGGLE", 431>>,
    <<"KEY_DISPLAY_OFF", 245>>, <<"KEY_DOCUMENTS", 235>>, <<"KEY_DOLLAR", 434>>,
    <<"KEY_DOT", 52>>, <<"KEY_DOWN", 108>>, <<"KEY_DUAL_RANGE_RADAR", 643>>,
    <<"KEY_DVD", 389>>, <<"KEY_E", 18>>, <<"KEY_EDIT", 176>>, <<"KEY_EDITOR", 422>>,
    <<"KEY_EJECTCD", 161>>, <<"KEY_EJECTCLOSECD", 162>>, <<"KEY_EMAIL", 215>>,
    <<"KEY_EMOJI_PICKER", 585>>, <<"KEY_END", 107>>, <<"KEY_ENTER", 28>>, <<"KEY_EPG", 365>>,
    <<"KEY_EQUAL", 13>>, <<"KEY_ESC", 1>>, <<"KEY_EURO", 435>>, <<"KEY_EXIT", 174>>,
    <<"KEY_F", 33>>, <<"KEY_F1", 59>>, <<"KEY_F10", 68>>, <<"KEY_F11", 87>>, <<"KEY_F12", 88>>,
    <<"KEY_F13", 183>>, <<"KEY_F14", 184>>, <<"KEY_F15", 185>>, <<"KEY_F16", 186>>,
    <<"KEY_F17", 187>>, <<"KEY_F18", 188>>, <<"KEY_F19", 189>>, <<"KEY_F2", 60>>,
    <<"KEY_F20", 190>>, <<"KEY_F21", 191>>, <<"KEY_F22", 192>>, <<"KEY_F23", 193>>,
    <<"KEY_F24", 194>>, <<"KEY_F3", 61>>, <<"KEY_F4", 62>>, <<"KEY_F5", 63>>, <<"KEY_F6", 64>>,
    <<"KEY_F7", 65>>, <<"KEY_F8", 66>>, <<"KEY_F9", 67>>, <<"KEY_FASTFORWARD", 208>>,
    <<"KEY_FASTREVERSE", 629>>, <<"KEY_FAVORITES", 364>>, <<"KEY_FILE", 144>>,
    <<"KEY_FINANCE", 219>>, <<"KEY_FIND", 136>>, <<"KEY_FIRST", 404>>,
    <<"KEY_FISHING_CHART", 641>>, <<"KEY_FN", 464>>, <<"KEY_FN_1", 478>>, <<"KEY_FN_2", 479>>,
    <<"KEY_FN_B", 484>>, <<"KEY_FN_D", 480>>, <<"KEY_FN_E", 481>>, <<"KEY_FN_ESC", 465>>,
    <<"KEY_FN_F", 482>>, <<"KEY_FN_F1", 466>>, <<"KEY_FN_F10", 475>>, <<"KEY_FN_F11", 476>>,
    <<"KEY_FN_F12", 477>>, <<"KEY_FN_F2", 467>>, <<"KEY_FN_F3", 468>>, <<"KEY_FN_F4", 469>>,
    <<"KEY_FN_F5", 470>>, <<"KEY_FN_F6", 471>>, <<"KEY_FN_F7", 472>>, <<"KEY_FN_F8", 473>>,
    <<"KEY_FN_F9", 474>>, <<"KEY_FN_RIGHT_SHIFT", 485>>, <<"KEY_FN_S", 483>>,
    <<"KEY_FORWARD", 159>>, <<"KEY_FORWARDMAIL", 233>>, <<"KEY_FRAMEBACK", 436>>,
    <<"KEY_FRAMEFORWARD", 437>>, <<"KEY_FRONT", 132>>, <<"KEY_FULL_SCREEN", 372>>,
    <<"KEY_G", 34>>, <<"KEY_GAMES", 417>>, <<"KEY_GOTO", 354>>, <<"KEY_GRAPHICSEDITOR", 424>>,
    <<"KEY_GRAVE", 41>>, <<"KEY_GREEN", 399>>, <<"KEY_H", 35>>, <<"KEY_HANGEUL", 122>>,
    <<"KEY_HANGUEL", 122>>, <<"KEY_HANGUP_PHONE", 446>>, <<"KEY_HANJA", 123>>,
    <<"KEY_HELP", 138>>, <<"KEY_HENKAN", 92>>, <<"KEY_HIRAGANA", 91>>, <<"KEY_HOME", 102>>,
    <<"KEY_HOMEPAGE", 172>>, <<"KEY_HP", 211>>, <<"KEY_I", 23>>, <<"KEY_IMAGES", 442>>,
    <<"KEY_INFO", 358>>, <<"KEY_INSERT", 110>>, <<"KEY_INS_LINE", 450>>, <<"KEY_ISO", 170>>,
    <<"KEY_J", 36>>, <<"KEY_JOURNAL", 578>>, <<"KEY_K", 37>>, <<"KEY_KATAKANA", 90>>,
    <<"KEY_KATAKANAHIRAGANA", 93>>, <<"KEY_KBDILLUMDOWN", 229>>, <<"KEY_KBDILLUMTOGGLE", 228>>,
    <<"KEY_KBDILLUMUP", 230>>, <<"KEY_KBDINPUTASSIST_ACCEPT", 612>>,
    <<"KEY_KBDINPUTASSIST_CANCEL", 613>>, <<"KEY_KBDINPUTASSIST_NEXT", 609>>,
    <<"KEY_KBDINPUTASSIST_NEXTGROUP", 611>>, <<"KEY_KBDINPUTASSIST_PREV", 608>>,
    <<"KEY_KBDINPUTASSIST_PREVGROUP", 610>>, <<"KEY_KBD_LAYOUT_NEXT", 584>>,
    <<"KEY_KBD_LCD_MENU1", 696>>, <<"KEY_KBD_LCD_MENU2", 697>>, <<"KEY_KBD_LCD_MENU3", 698>>,
    <<"KEY_KBD_LCD_MENU4", 699>>, <<"KEY_KBD_LCD_MENU5", 700>>, <<"KEY_KEYBOARD", 374>>,
    <<"KEY_KP0", 82>>, <<"KEY_KP1", 79>>, <<"KEY_KP2", 80>>, <<"KEY_KP3", 81>>,
    <<"KEY_KP4", 75>>, <<"KEY_KP5", 76>>, <<"KEY_KP6", 77>>, <<"KEY_KP7", 71>>,
    <<"KEY_KP8", 72>>, <<"KEY_KP9", 73>>, <<"KEY_KPASTERISK", 55>>, <<"KEY_KPCOMMA", 121>>,
    <<"KEY_KPDOT", 83>>, <<"KEY_KPENTER", 96>>, <<"KEY_KPEQUAL", 117>>,
    <<"KEY_KPJPCOMMA", 95>>, <<"KEY_KPLEFTPAREN", 179>>, <<"KEY_KPMINUS", 74>>,
    <<"KEY_KPPLUS", 78>>, <<"KEY_KPPLUSMINUS", 118>>, <<"KEY_KPRIGHTPAREN", 180>>,
    <<"KEY_KPSLASH", 98>>, <<"KEY_L", 38>>, <<"KEY_LANGUAGE", 368>>, <<"KEY_LAST", 405>>,
    <<"KEY_LEFT", 105>>, <<"KEY_LEFTALT", 56>>, <<"KEY_LEFTBRACE", 26>>,
    <<"KEY_LEFTCTRL", 29>>, <<"KEY_LEFTMETA", 125>>, <<"KEY_LEFTSHIFT", 42>>,
    <<"KEY_LEFT_DOWN", 617>>, <<"KEY_LEFT_UP", 616>>, <<"KEY_LIGHTS_TOGGLE", 542>>,
    <<"KEY_LINEFEED", 101>>, <<"KEY_LIST", 395>>, <<"KEY_LOGOFF", 433>>, <<"KEY_M", 50>>,
    <<"KEY_MACRO", 112>>, <<"KEY_MACRO1", 656>>, <<"KEY_MACRO10", 665>>,
    <<"KEY_MACRO11", 666>>, <<"KEY_MACRO12", 667>>, <<"KEY_MACRO13", 668>>,
    <<"KEY_MACRO14", 669>>, <<"KEY_MACRO15", 670>>, <<"KEY_MACRO16", 671>>,
    <<"KEY_MACRO17", 672>>, <<"KEY_MACRO18", 673>>, <<"KEY_MACRO19", 674>>,
    <<"KEY_MACRO2", 657>>, <<"KEY_MACRO20", 675>>, <<"KEY_MACRO21", 676>>,
    <<"KEY_MACRO22", 677>>, <<"KEY_MACRO23", 678>>, <<"KEY_MACRO24", 679>>,
    <<"KEY_MACRO25", 680>>, <<"KEY_MACRO26", 681>>, <<"KEY_MACRO27", 682>>,
    <<"KEY_MACRO28", 683>>, <<"KEY_MACRO29", 684>>, <<"KEY_MACRO3", 658>>,
    <<"KEY_MACRO30", 685>>, <<"KEY_MACRO4", 659>>, <<"KEY_MACRO5", 660>>,
    <<"KEY_MACRO6", 661>>, <<"KEY_MACRO7", 662>>, <<"KEY_MACRO8", 663>>, <<"KEY_MACRO9", 664>>,
    <<"KEY_MACRO_PRESET1", 691>>, <<"KEY_MACRO_PRESET2", 692>>, <<"KEY_MACRO_PRESET3", 693>>,
    <<"KEY_MACRO_PRESET_CYCLE", 690>>, <<"KEY_MACRO_RECORD_START", 688>>,
    <<"KEY_MACRO_RECORD_STOP", 689>>, <<"KEY_MAIL", 155>>, <<"KEY_MARK_WAYPOINT", 638>>,
    <<"KEY_MAX", 767>>, <<"KEY_MEDIA", 226>>, <<"KEY_MEDIA_REPEAT", 439>>,
    <<"KEY_MEDIA_TOP_MENU", 619>>, <<"KEY_MEMO", 396>>, <<"KEY_MENU", 139>>,
    <<"KEY_MESSENGER", 430>>, <<"KEY_MHP", 367>>, <<"KEY_MICMUTE", 248>>, <<"KEY_MINUS", 12>>,
    <<"KEY_MIN_INTERESTING", 113>>, <<"KEY_MODE", 373>>, <<"KEY_MOVE", 175>>,
    <<"KEY_MP3", 391>>, <<"KEY_MSDOS", 151>>, <<"KEY_MUHENKAN", 94>>, <<"KEY_MUTE", 113>>,
    <<"KEY_N", 49>>, <<"KEY_NAV_CHART", 640>>, <<"KEY_NAV_INFO", 648>>, <<"KEY_NEW", 181>>,
    <<"KEY_NEWS", 427>>, <<"KEY_NEXT", 407>>, <<"KEY_NEXTSONG", 163>>,
    <<"KEY_NEXT_ELEMENT", 635>>, <<"KEY_NEXT_FAVORITE", 624>>,
    <<"KEY_NOTIFICATION_CENTER", 444>>, <<"KEY_NUMERIC_0", 512>>, <<"KEY_NUMERIC_1", 513>>,
    <<"KEY_NUMERIC_11", 620>>, <<"KEY_NUMERIC_12", 621>>, <<"KEY_NUMERIC_2", 514>>,
    <<"KEY_NUMERIC_3", 515>>, <<"KEY_NUMERIC_4", 516>>, <<"KEY_NUMERIC_5", 517>>,
    <<"KEY_NUMERIC_6", 518>>, <<"KEY_NUMERIC_7", 519>>, <<"KEY_NUMERIC_8", 520>>,
    <<"KEY_NUMERIC_9", 521>>, <<"KEY_NUMERIC_A", 524>>, <<"KEY_NUMERIC_B", 525>>,
    <<"KEY_NUMERIC_C", 526>>, <<"KEY_NUMERIC_D", 527>>, <<"KEY_NUMERIC_POUND", 523>>,
    <<"KEY_NUMERIC_STAR", 522>>, <<"KEY_NUMLOCK", 69>>, <<"KEY_O", 24>>, <<"KEY_OK", 352>>,
    <<"KEY_ONSCREEN_KEYBOARD", 632>>, <<"KEY_OPEN", 134>>, <<"KEY_OPTION", 357>>,
    <<"KEY_P", 25>>, <<"KEY_PAGEDOWN", 109>>, <<"KEY_PAGEUP", 104>>, <<"KEY_PASTE", 135>>,
    <<"KEY_PAUSE", 119>>, <<"KEY_PAUSECD", 201>>, <<"KEY_PAUSE_RECORD", 626>>,
    <<"KEY_PC", 376>>, <<"KEY_PHONE", 169>>, <<"KEY_PICKUP_PHONE", 445>>, <<"KEY_PLAY", 207>>,
    <<"KEY_PLAYCD", 200>>, <<"KEY_PLAYER", 387>>, <<"KEY_PLAYPAUSE", 164>>,
    <<"KEY_POWER", 116>>, <<"KEY_POWER2", 356>>, <<"KEY_PRESENTATION", 425>>,
    <<"KEY_PREVIOUS", 412>>, <<"KEY_PREVIOUSSONG", 165>>, <<"KEY_PREVIOUS_ELEMENT", 636>>,
    <<"KEY_PRINT", 210>>, <<"KEY_PRIVACY_SCREEN_TOGGLE", 633>>, <<"KEY_PROG1", 148>>,
    <<"KEY_PROG2", 149>>, <<"KEY_PROG3", 202>>, <<"KEY_PROG4", 203>>, <<"KEY_PROGRAM", 362>>,
    <<"KEY_PROPS", 130>>, <<"KEY_PVR", 366>>, <<"KEY_Q", 16>>, <<"KEY_QUESTION", 214>>,
    <<"KEY_R", 19>>, <<"KEY_RADAR_OVERLAY", 644>>, <<"KEY_RADIO", 385>>, <<"KEY_RECORD", 167>>,
    <<"KEY_RED", 398>>, <<"KEY_REDO", 182>>, <<"KEY_REFRESH", 173>>, <<"KEY_REPLY", 232>>,
    <<"KEY_RESERVED", 0>>, <<"KEY_RESTART", 408>>, <<"KEY_REWIND", 168>>,
    <<"KEY_RFKILL", 247>>, <<"KEY_RIGHT", 106>>, <<"KEY_RIGHTALT", 100>>,
    <<"KEY_RIGHTBRACE", 27>>, <<"KEY_RIGHTCTRL", 97>>, <<"KEY_RIGHTMETA", 126>>,
    <<"KEY_RIGHTSHIFT", 54>>, <<"KEY_RIGHT_DOWN", 615>>, <<"KEY_RIGHT_UP", 614>>,
    <<"KEY_RO", 89>>, <<"KEY_ROOT_MENU", 618>>, <<"KEY_ROTATE_DISPLAY", 153>>,
    <<"KEY_ROTATE_LOCK_TOGGLE", 561>>, <<"KEY_S", 31>>, <<"KEY_SAT", 381>>,
    <<"KEY_SAT2", 382>>, <<"KEY_SAVE", 234>>, <<"KEY_SCALE", 120>>, <<"KEY_SCREEN", 375>>,
    <<"KEY_SCREENLOCK", 152>>, <<"KEY_SCREENSAVER", 581>>, <<"KEY_SCROLLDOWN", 178>>,
    <<"KEY_SCROLLLOCK", 70>>, <<"KEY_SCROLLUP", 177>>, <<"KEY_SEARCH", 217>>,
    <<"KEY_SELECT", 353>>, <<"KEY_SELECTIVE_SCREENSHOT", 634>>, <<"KEY_SEMICOLON", 39>>,
    <<"KEY_SEND", 231>>, <<"KEY_SENDFILE", 145>>, <<"KEY_SETUP", 141>>, <<"KEY_SHOP", 221>>,
    <<"KEY_SHUFFLE", 410>>, <<"KEY_SIDEVU_SONAR", 647>>, <<"KEY_SINGLE_RANGE_RADAR", 642>>,
    <<"KEY_SLASH", 53>>, <<"KEY_SLEEP", 142>>, <<"KEY_SLOW", 409>>, <<"KEY_SLOWREVERSE", 630>>,
    <<"KEY_SOS", 639>>, <<"KEY_SOUND", 213>>, <<"KEY_SPACE", 57>>, <<"KEY_SPELLCHECK", 432>>,
    <<"KEY_SPORT", 220>>, <<"KEY_SPREADSHEET", 423>>, <<"KEY_STOP", 128>>,
    <<"KEY_STOPCD", 166>>, <<"KEY_STOP_RECORD", 625>>, <<"KEY_SUBTITLE", 370>>,
    <<"KEY_SUSPEND", 205>>, <<"KEY_SWITCHVIDEOMODE", 227>>, <<"KEY_SYSRQ", 99>>,
    <<"KEY_T", 20>>, <<"KEY_TAB", 15>>, <<"KEY_TAPE", 384>>, <<"KEY_TASKMANAGER", 577>>,
    <<"KEY_TEEN", 414>>, <<"KEY_TEXT", 388>>, <<"KEY_TIME", 359>>, <<"KEY_TITLE", 369>>,
    <<"KEY_TOUCHPAD_OFF", 532>>, <<"KEY_TOUCHPAD_ON", 531>>, <<"KEY_TOUCHPAD_TOGGLE", 530>>,
    <<"KEY_TRADITIONAL_SONAR", 645>>, <<"KEY_TUNER", 386>>, <<"KEY_TV", 377>>,
    <<"KEY_TV2", 378>>, <<"KEY_TWEN", 415>>, <<"KEY_U", 22>>, <<"KEY_UNDO", 131>>,
    <<"KEY_UNKNOWN", 240>>, <<"KEY_UNMUTE", 628>>, <<"KEY_UP", 103>>, <<"KEY_UWB", 239>>,
    <<"KEY_V", 47>>, <<"KEY_VCR", 379>>, <<"KEY_VCR2", 380>>, <<"KEY_VENDOR", 360>>,
    <<"KEY_VIDEO", 393>>, <<"KEY_VIDEOPHONE", 416>>, <<"KEY_VIDEO_NEXT", 241>>,
    <<"KEY_VIDEO_PREV", 242>>, <<"KEY_VOD", 627>>, <<"KEY_VOICECOMMAND", 582>>,
    <<"KEY_VOICEMAIL", 428>>, <<"KEY_VOLUMEDOWN", 114>>, <<"KEY_VOLUMEUP", 115>>,
    <<"KEY_W", 17>>, <<"KEY_WAKEUP", 143>>, <<"KEY_WIMAX", 246>>, <<"KEY_WLAN", 238>>,
    <<"KEY_WORDPROCESSOR", 421>>, <<"KEY_WPS_BUTTON", 529>>, <<"KEY_WWAN", 246>>,
    <<"KEY_WWW", 150>>, <<"KEY_X", 45>>, <<"KEY_XFER", 147>>, <<"KEY_Y", 21>>,
    <<"KEY_YELLOW", 400>>, <<"KEY_YEN", 124>>, <<"KEY_Z", 44>>, <<"KEY_ZENKAKUHANKAKU", 85>>,
    <<"KEY_ZOOM", 372>>, <<"KEY_ZOOMIN", 418>>, <<"KEY_ZOOMOUT", 419>>, <<"KEY_ZOOMRESET", 420>>
  >>

(* ... then the relative axes and the attributes that are no constants. *)
ecodes_other_attrs ==
  <<
    <<"REL_CNT", 16>>, <<"REL_DIAL", 7>>, <<"REL_HWHEEL", 6>>, <<"REL_HWHEEL_HI_RES", 12>>,
    <<"REL_MAX", 15>>, <<"REL_MISC", 9>>, <<"REL_RESERVED", 10>>, <<"REL_RX", 3>>,
    <<"REL_RY", 4>>, <<"REL_RZ", 5>>, <<"REL_WHEEL", 8>>, <<"REL_WHEEL_HI_RES", 11>>,
    <<"REL_X", 0>>, <<"REL_Y", 1>>, <<"REL_Z", 2>>, <<"__doc__", Obj>>, <<"__name__", Obj>>
  >>

(* The keyboard usage page (0x07): attribute names and usage ids, in dir() order. *)
Keycode_attrs ==
  <<
    <<"A", 4>>, <<"ALT", 226>>, <<"APPLICATION", 101>>, <<"B", 5>>, <<"BACKSLASH", 49>>,
    <<"BACKSPACE", 42>>, <<"C", 6>>, <<"CAPS_LOCK", 57>>, <<"COMMA", 54>>, <<"COMMAND", 227>>,
    <<"CONTROL", 224>>, <<"D", 7>>, <<"DELETE", 76>>, <<"DOWN_ARROW", 81>>, <<"E", 8>>,
    <<"EIGHT", 37>>, <<"END", 77>>, <<"ENTER", 40>>, <<"EQUALS", 46>>, <<"ESCAPE", 41>>,
    <<"F", 9>>, <<"F1", 58>>, <<"F10", 67>>, <<"F11", 68>>, <<"F12", 69>>, <<"F13", 104>>,
    <<"F14", 105>>, <<"F15", 106>>, <<"F16", 107>>, <<"F17", 108>>, <<"F18", 109>>,
    <<"F19", 110>>, <<"F2", 59>>, <<"F20", 111>>, <<"F21", 112>>, <<"F22", 113>>,
    <<"F23", 114>>, <<"F24", 115>>, <<"F3", 60>>, <<"F4", 61>>, <<"F5", 62>>, <<"F6", 63>>,
    <<"F7", 64>>, <<"F8", 65>>, <<"F9", 66>>, <<"FIVE", 34>>, <<"FORWARD_SLASH", 56>>,
    <<"FOUR", 33>>, <<"G", 10>>, <<"GRAVE_ACCENT", 53>>, <<"GUI", 227>>, <<"H", 11>>,
    <<"HOME", 74>>, <<"I", 12>>, <<"INSERT", 73>>, <<"J", 13>>, <<"K", 14>>,
    <<"KEYPAD_ASTERISK", 85>>, <<"KEYPAD_BACKSLASH", 100>>, <<"KEYPAD_COMMA", 133>>,
    <<"KEYPAD_EIGHT", 96>>, <<"KEYPAD_ENTER", 88>>, <<"KEYPAD_EQUALS", 103>>,
    <<"KEYPAD_FIVE", 93>>, <<"KEYPAD_FORWARD_SLASH", 84>>, <<"KEYPAD_FOUR", 92>>,
    <<"KEYPAD_MINUS", 86>>, <<"KEYPAD_NINE", 97>>, <<"KEYPAD_NUMLOCK", 83>>,
    <<"KEYPAD_ONE", 89>>, <<"KEYPAD_PERIOD", 99>>, <<"KEYPAD_PLUS", 87>>,
    <<"KEYPAD_SEVEN", 95>>, <<"KEYPAD_SIX", 94>>, <<"KEYPAD_THREE", 91>>, <<"KEYPAD_TWO", 90>>,
    <<"KEYPAD_ZERO", 98>>, <<"L", 15>>, <<"LEFT_ALT", 226>>, <<"LEFT_ARROW", 80>>,
    <<"LEFT_BRACKET", 47>>, <<"LEFT_CONTROL", 224>>, <<"LEFT_GUI", 227>>,
    <<"LEFT_SHIFT", 225>>, <<"M", 16>>, <<"MINUS", 45>>, <<"N", 17>>, <<"NINE", 38>>,
    <<"O", 18>>, <<"ONE", 30>>, <<"OPTION", 226>>, <<"P", 19>>, <<"PAGE_DOWN", 78>>,
    <<"PAGE_UP", 75>>, <<"PAUSE", 72>>, <<"PERIOD", 55>>, <<"POUND", 50>>, <<"POWER", 102>>,
    <<"PRINT_SCREEN", 70>>, <<"Q", 20>>, <<"QUOTE", 52>>, <<"R", 21>>, <<"RETURN", 40>>,
    <<"RIGHT_ALT", 230>>, <<"RIGHT_ARROW", 79>>, <<"RIGHT_BRACKET", 48>>,
    <<"RIGHT_CONTROL", 228>>, <<"RIGHT_GUI", 231>>, <<"RIGHT_SHIFT", 229>>, <<"S", 22>>,
    <<"SCROLL_LOCK", 71>>, <<"SEMICOLON", 51>>, <<"SEVEN", 36>>, <<"SHIFT", 225>>,
    <<"SIX", 35>>, <<"SPACE", 44>>, <<"SPACEBAR", 44>>, <<"T", 23>>, <<"TAB", 43>>,
    <<"THREE", 32>>, <<"TWO", 31>>, <<"U", 24>>, <<"UP_ARROW", 82>>, <<"V", 25>>, <<"W", 26>>,
    <<"WINDOWS", 227>>, <<"X", 27>>, <<"Y", 28>>, <<"Z", 29>>, <<"ZERO", 39>>,
    <<"__doc__", Obj>>, <<"__module__", Obj>>, <<"modifier_bit", Obj>>
  >>

(* The consumer usage page (0x0C): attribute names and usage ids, in dir() order. *)
ConsumerControlCode_attrs ==
  <<
    <<"AC_BACK", 548>>, <<"AC_BOOKMARKS", 386>>, <<"AC_CANCEL", 607>>, <<"AC_CLOSE", 515>>,
    <<"AC_COPY", 539>>, <<"AC_CUT", 540>>, <<"AC_DESKTOP_SHOW_ALL_APPLICATIONS", 674>>,
    <<"AC_DESKTOP_SHOW_ALL_WINDOWS", 671>>, <<"AC_EDIT", 573>>, <<"AC_EXIT", 148>>,
    <<"AC_FIND", 543>>, <<"AC_FORWARD", 549>>, <<"AC_FORWARD_MSG", 651>>, <<"AC_GO_TO", 546>>,
    <<"AC_HOME", 547>>, <<"AC_NEW", 513>>, <<"AC_NEXT_KEYBOARD_LAYOUT_SELECT", 669>>,
    <<"AC_OPEN", 514>>, <<"AC_PASTE", 541>>, <<"AC_PROPERTIES", 521>>,
    <<"AC_REDO_REPEAT", 633>>, <<"AC_REFRESH", 551>>, <<"AC_REPLY", 649>>, <<"AC_SAVE", 519>>,
    <<"AC_SCROLL_DOWN", 564>>, <<"AC_SCROLL_UP", 563>>, <<"AC_SEARCH", 545>>,
    <<"AC_SEND", 652>>, <<"AC_STOP", 550>>, <<"AC_UNDO", 538>>, <<"AC_VIEW_TOGGLE", 562>>,
    <<"AC_ZOOM", 559>>, <<"AC_ZOOM_IN", 557>>, <<"AC_ZOOM_OUT", 558>>,
    <<"AL_AUDIO_BROWSER", 439>>, <<"AL_AV_CAPTURE_PLAYBACK", 403>>, <<"AL_CALCULATOR", 402>>,
    <<"AL_CALENDAR_SCHEDULE", 398>>, <<"AL_CHECKBOOK_FINANCE", 401>>,
    <<"AL_CONSUMER_CONTROL_CONFIGURATION_TOOL", 387>>, <<"AL_CONTACTS_ADDRESS_BOOK", 397>>,
    <<"AL_CONTEXT_AWARE_DESKTOP_ASSISTANT", 459>>, <<"AL_CONTROL_PANEL", 415>>,
    <<"AL_DATABASE_APP", 393>>, <<"AL_DOCUMENTS", 423>>, <<"AL_EMAIL_READER", 394>>,
    <<"AL_FILE_BROWSER", 404>>, <<"AL_GRAPHICS_EDITOR", 391>>, <<"AL_IMAGE_BROWSER", 438>>,
    <<"AL_INSTANT_MESSAGING", 444>>, <<"AL_INTEGRATED_HELP_CENTER", 149>>,
    <<"AL_INTERNET_BROWSER", 138>>, <<"AL_KEYBOARD_LAYOUT", 430>>,
    <<"AL_LAUNCH_BUTTON_CONFIGURATION_TOOL", 385>>, <<"AL_LOGOFF", 412>>,
    <<"AL_LOG_JOURNAL_TIMECARD", 400>>, <<"AL_MOVIE_BROWSER", 440>>,
    <<"AL_NETWORK_CHAT", 409>>, <<"AL_NEWSREADER", 395>>, <<"AL_NEXT_TASK_APPLICATION", 419>>,
    <<"AL_OEM_FEATURES_TIPS_TUTORIAL_BROWSER", 96>>, <<"AL_PRESENTATION_APP", 392>>,
    <<"AL_PREVIOUS_TASK_APPLICATION", 420>>, <<"AL_SCREEN_SAVER", 433>>,
    <<"AL_SELECT_TASK_APPLICATION", 418>>, <<"AL_SPELL_CHECK", 427>>,
    <<"AL_SPREADSHEET", 390>>, <<"AL_TASK_PROJECT_MANAGER", 399>>,
    <<"AL_TERMINAL_LOCK_SCREENSAVER", 414>>, <<"AL_TEXT_EDITOR", 389>>,
    <<"AL_VOICEMAIL", 396>>, <<"AL_WORD_PROCESSOR", 388>>, <<"ASPECT", 109>>,
    <<"BASS_BOOST", 229>>, <<"BLUE_MENU_BUTTON", 107>>, <<"BRIGHTNESS_DECREMENT", 112>>,
    <<"BRIGHTNESS_INCREMENT", 111>>, <<"CAMERA_ACCESS_DISABLED", 119>>,
    <<"CAMERA_ACCESS_ENABLED", 118>>, <<"CAMERA_ACCESS_TOGGLE", 120>>,
    <<"CHANNEL_DECREMENT", 157>>, <<"CHANNEL_INCREMENT", 156>>, <<"CLOSED_CAPTION", 97>>,
    <<"DISPLAY_BACKLIGHT_TOGGLE", 114>>, <<"DISPLAY_BRIGHTNESS_DECREMENT", 112>>,
    <<"DISPLAY_BRIGHTNESS_INCREMENT", 111>>, <<"DISPLAY_SET_AUTO_BRIGHTNESS", 117>>,
    <<"DISPLAY_SET_BRIGHTNESS_TO_MAXIMUM", 116>>, <<"DISPLAY_SET_BRIGHTNESS_TO_MINIMUM", 115>>,
    <<"EJECT", 184>>, <<"FAST_FORWARD", 179>>, <<"FUNCTION_BUTTONS", 54>>,
    <<"GREEN_MENU_BUTTON", 106>>, <<"INVOKE_OR_DISMISS_EMOJI_PICKER", 217>>,
    <<"KEYBOARD_BACKLIGHT_OOC", 124>>, <<"KEYBOARD_BRIGHTNESS_DECREMENT", 122>>,
    <<"KEYBOARD_BRIGHTNESS_INCREMENT", 121>>, <<"KEYBOARD_INPUT_ASSIST_ACCEPT", 715>>,
    <<"KEYBOARD_INPUT_ASSIST_CANCEL", 716>>, <<"KEYBOARD_INPUT_ASSIST_NEXT", 712>>,
    <<"KEYBOARD_INPUT_ASSIST_NEXT_GROUP", 714>>, <<"KEYBOARD_INPUT_ASSIST_PREVIOUS", 711>>,
    <<"KEYBOARD_INPUT_ASSIST_PREVIOUS_GROUP", 713>>, <<"MEDIA_SELECT_CABLE", 151>>,
    <<"MEDIA_SELECT_CD", 145>>, <<"MEDIA_SELECT_COMPUTER", 136>>, <<"MEDIA_SELECT_DVD", 139>>,
    <<"MEDIA_SELECT_GAMES", 143>>, <<"MEDIA_SELECT_HOME", 154>>,
    <<"MEDIA_SELECT_MESSAGES", 144>>, <<"MEDIA_SELECT_PROGRAM_GUIDE", 141>>,
    <<"MEDIA_SELECT_SATELLITE", 152>>, <<"MEDIA_SELECT_TAPE", 150>>,
    <<"MEDIA_SELECT_TELEPHONE", 140>>, <<"MEDIA_SELECT_TUNER", 147>>,
    <<"MEDIA_SELECT_TV", 137>>, <<"MEDIA_SELECT_VCR", 99>>,
    <<"MEDIA_SELECT_VIDEO_PHONE", 142>>, <<"MENU", 64>>, <<"MENU_PICK", 65>>,
    <<"MODE_STEP", 130>>, <<"MUTE", 226>>, <<"PAUSE", 177>>, <<"PLAY", 176>>,
    <<"PLAY_PAUSE", 205>>, <<"POWER", 48>>, <<"RANDOM_PLAY", 185>>, <<"RECALL_LAST", 131>>,
    <<"RECORD", 178>>, <<"RED_MENU_BUTTON", 105>>, <<"REPEAT", 188>>, <<"RESET", 49>>,
    <<"REWIND", 180>>, <<"SCAN_NEXT_TRACK", 181>>, <<"SCAN_PREVIOUS_TRACK", 182>>,
    <<"SLEEP", 50>>, <<"SLOW", 191>>, <<"SNAPSHOT", 101>>,
    <<"START_OR_STOP_VOICE_DICTATION_SESSION", 216>>, <<"STOP", 183>>, <<"VCR_PLUS", 160>>,
    <<"VOICE_COMMAND", 207>>, <<"VOLUME_DECREMENT", 234>>, <<"VOLUME_INCREMENT", 233>>,
    <<"YELLOW_MENU_BUTTON", 108>>, <<"__doc__", Obj>>, <<"__module__", Obj>>
  >>

(* The mouse buttons: attribute names and button masks, in dir() order. *)
MouseButton_attrs ==
  <<
    <<"LEFT", 1>>, <<"MIDDLE", 4>>, <<"RIGHT", 2>>, <<"__doc__", Obj>>, <<"__module__", Obj>>
  >>
ecodes_attrs == ecodes_BTN_attrs \o ecodes_KEY_attrs \o ecodes_other_attrs

(* A class or module seen as the mapping of its attribute names to values:
   that of attrs[lo..hi]. *)
RECURSIVE Namespace(_, _, _)
Namespace(attrs, lo, hi) ==
  IF lo = hi THEN attrs[lo][1] :> attrs[lo][2]
  ELSE LET mid == (lo + hi) \div 2
       IN  Namespace(attrs, lo, mid) @@ Namespace(attrs, mid + 1, hi)

ecodes == Namespace(ecodes_attrs, 1, Len(ecodes_attrs))
Keycode == Namespace(Keycode_attrs, 1, Len(Keycode_attrs))
ConsumerControlCode ==
  Namespace(ConsumerControlCode_attrs, 1, Len(ConsumerControlCode_attrs))
MouseButton == Namespace(MouseButton_attrs, 1, Len(MouseButton_attrs))

(* The dict literal of the source, item by item in the order written. *)
EVDEV_TO_HID_literal ==
  <<
    <<ecodes.KEY_A, Keycode.A>>, <<ecodes.KEY_B, Keycode.B>>, <<ecodes.KEY_C, Keycode.C>>,
    <<ecodes.KEY_D, Keycode.D>>, <<ecodes.KEY_E, Keycode.E>>, <<ecodes.KEY_F, Keycode.F>>,
    <<ecodes.KEY_G, Keycode.G>>, <<ecodes.KEY_H, Keycode.H>>, <<ecodes.KEY_I, Keycode.I>>,
    <<ecodes.KEY_J, Keycode.J>>, <<ecodes.KEY_K, Keycode.K>>, <<ecodes.KEY_L, Keycode.L>>,
    <<ecodes.KEY_M, Keycode.M>>, <<ecodes.KEY_N, Keycode.N>>, <<ecodes.KEY_O, Keycode.O>>,
    <<ecodes.KEY_P, Keycode.P>>, <<ecodes.KEY_Q, Keycode.Q>>, <<ecodes.KEY_R, Keycode.R>>,
    <<ecodes.KEY_S, Keycode.S>>, <<ecodes.KEY_T, Keycode.T>>, <<ecodes.KEY_U, Keycode.U>>,
    <<ecodes.KEY_V, Keycode.V>>, <<ecodes.KEY_W, Keycode.W>>, <<ecodes.KEY_X, Keycode.X>>,
    <<ecodes.KEY_Y, Keycode.Y>>, <<ecodes.KEY_Z, Keycode.Z>>, <<ecodes.KEY_1, Keycode.ONE>>,
    <<ecodes.KEY_2, Keycode.TWO>>, <<ecodes.KEY_3, Keycode.THREE>>,
    <<ecodes.KEY_4, Keycode.FOUR>>, <<ecodes.KEY_5, Keycode.FIVE>>,
    <<ecodes.KEY_6, Keycode.SIX>>, <<ecodes.KEY_7, Keycode.SEVEN>>,
    <<ecodes.KEY_8, Keycode.EIGHT>>, <<ecodes.KEY_9, Keycode.NINE>>,
    <<ecodes.KEY_0, Keycode.ZERO>>, <<ecodes.KEY_ENTER, Keycode.ENTER>>,
    <<ecodes.KEY_ESC, Keycode.ESCAPE>>, <<ecodes.KEY_BACKSPACE, Keycode.BACKSPACE>>,
    <<ecodes.KEY_TAB, Keycode.TAB>>, <<ecodes.KEY_SPACE, Keycode.SPACEBAR>>,
    <<ecodes.KEY_MINUS, Keycode.MINUS>>, <<ecodes.KEY_EQUAL, Keycode.EQUALS>>,
    <<ecodes.KEY_LEFTBRACE, Keycode.LEFT_BRACKET>>,
    <<ecodes.KEY_RIGHTBRACE, Keycode.RIGHT_BRACKET>>, <<ecodes.KEY_BACKSLASH, Keycode.POUND>>,
    <<ecodes.KEY_SEMICOLON, Keycode.SEMICOLON>>, <<ecodes.KEY_APOSTROPHE, Keycode.QUOTE>>,
    <<ecodes.KEY_GRAVE, Keycode.GRAVE_ACCENT>>, <<ecodes.KEY_COMMA, Keycode.COMMA>>,
    <<ecodes.KEY_DOT, Keycode.PERIOD>>, <<ecodes.KEY_SLASH, Keycode.FORWARD_SLASH>>,
    <<ecodes.KEY_CAPSLOCK, Keycode.CAPS_LOCK>>, <<ecodes.KEY_F1, Keycode.F1>>,
    <<ecodes.KEY_F2, Keycode.F2>>, <<ecodes.KEY_F3, Keycode.F3>>,
    <<ecodes.KEY_F4, Keycode.F4>>, <<ecodes.KEY_F5, Keycode.F5>>,
    <<ecodes.KEY_F6, Keycode.F6>>, <<ecodes.KEY_F7, Keycode.F7>>,
    <<ecodes.KEY_F8, Keycode.F8>>, <<ecodes.KEY_F9, Keycode.F9>>,
    <<ecodes.KEY_F10, Keycode.F10>>, <<ecodes.KEY_F11, Keycode.F11>>,
    <<ecodes.KEY_F12, Keycode.F12>>, <<ecodes.KEY_SYSRQ, Keycode.PRINT_SCREEN>>,
    <<ecodes.KEY_SCROLLLOCK, Keycode.SCROLL_LOCK>>, <<ecodes.KEY_PAUSE, Keycode.PAUSE>>,
    <<ecodes.KEY_INSERT, Keycode.INSERT>>, <<ecodes.KEY_HOME, Keycode.HOME>>,
    <<ecodes.KEY_PAGEUP, Keycode.PAGE_UP>>, <<ecodes.KEY_DELETE, Keycode.DELETE>>,
    <<ecodes.KEY_END, Keycode.END>>, <<ecodes.KEY_PAGEDOWN, Keycode.PAGE_DOWN>>,
    <<ecodes.KEY_RIGHT, Keycode.RIGHT_ARROW>>, <<ecodes.KEY_LEFT, Keycode.LEFT_ARROW>>,
    <<ecodes.KEY_DOWN, Keycode.DOWN_ARROW>>, <<ecodes.KEY_UP, Keycode.UP_ARROW>>,
    <<ecodes.KEY_NUMLOCK, Keycode.KEYPAD_NUMLOCK>>,
    <<ecodes.KEY_KPSLASH, Keycode.KEYPAD_FORWARD_SLASH>>,
    <<ecodes.KEY_KPASTERISK, Keycode.KEYPAD_ASTERISK>>,
    <<ecodes.KEY_KPMINUS, Keycode.KEYPAD_MINUS>>, <<ecodes.KEY_KPPLUS, Keycode.KEYPAD_PLUS>>,
    <<ecodes.KEY_KPENTER, Keycode.KEYPAD_ENTER>>, <<ecodes.KEY_KP1, Keycode.KEYPAD_ONE>>,
    <<ecodes.KEY_KP2, Keycode.KEYPAD_TWO>>, <<ecodes.KEY_KP3, Keycode.KEYPAD_THREE>>,
    <<ecodes.KEY_KP4, Keycode.KEYPAD_FOUR>>, <<ecodes.KEY_KP5, Keycode.KEYPAD_FIVE>>,
    <<ecodes.KEY_KP6, Keycode.KEYPAD_SIX>>, <<ecodes.KEY_KP7, Keycode.KEYPAD_SEVEN>>,
    <<ecodes.KEY_KP8, Keycode.KEYPAD_EIGHT>>, <<ecodes.KEY_KP9, Keycode.KEYPAD_NINE>>,
    <<ecodes.KEY_KP0, Keycode.KEYPAD_ZERO>>, <<ecodes.KEY_KPDOT, Keycode.KEYPAD_PERIOD>>,
    <<ecodes.KEY_102ND, Keycode.KEYPAD_BACKSLASH>>,
    <<ecodes.KEY_COMPOSE, Keycode.APPLICATION>>, <<ecodes.KEY_POWER, Keycode.POWER>>,
    <<ecodes.KEY_KPEQUAL, Keycode.KEYPAD_EQUALS>>,
    <<ecodes.KEY_KPCOMMA, Keycode.KEYPAD_COMMA>>, <<ecodes.KEY_F13, Keycode.F13>>,
    <<ecodes.KEY_F14, Keycode.F14>>, <<ecodes.KEY_F15, Keycode.F15>>,
    <<ecodes.KEY_F16, Keycode.F16>>, <<ecodes.KEY_F17, Keycode.F17>>,
    <<ecodes.KEY_F18, Keycode.F18>>, <<ecodes.KEY_F19, Keycode.F19>>,
    <<ecodes.KEY_F20, Keycode.F20>>, <<ecodes.KEY_F21, Keycode.F21>>,
    <<ecodes.KEY_F22, Keycode.F22>>, <<ecodes.KEY_F23, Keycode.F23>>,
    <<ecodes.KEY_F24, Keycode.F24>>, <<ecodes.KEY_LEFTCTRL, Keycode.LEFT_CONTROL>>,
    <<ecodes.KEY_LEFTSHIFT, Keycode.LEFT_SHIFT>>, <<ecodes.KEY_LEFTALT, Keycode.LEFT_ALT>>,
    <<ecodes.KEY_LEFTMETA, Keycode.LEFT_GUI>>, <<ecodes.KEY_RIGHTCTRL, Keycode.RIGHT_CONTROL>>,
    <<ecodes.KEY_RIGHTSHIFT, Keycode.RIGHT_SHIFT>>, <<ecodes.KEY_RIGHTALT, Keycode.RIGHT_ALT>>,
    <<ecodes.KEY_RIGHTMETA, Keycode.RIGHT_GUI>>, <<ecodes.BTN_LEFT, MouseButton.LEFT>>,
    <<ecodes.BTN_RIGHT, MouseButton.RIGHT>>, <<ecodes.BTN_MIDDLE, MouseButton.MIDDLE>>,
    <<ecodes.KEY_POWER, ConsumerControlCode.POWER>>,
    <<ecodes.KEY_RESTART, ConsumerControlCode.RESET>>,
    <<ecodes.KEY_SLEEP, ConsumerControlCode.SLEEP>>,
    <<ecodes.BTN_MISC, ConsumerControlCode.FUNCTION_BUTTONS>>,
    <<ecodes.KEY_MENU, ConsumerControlCode.MENU>>,
    <<ecodes.KEY_SELECT, ConsumerControlCode.MENU_PICK>>,
    <<ecodes.KEY_INFO, ConsumerControlCode.AL_OEM_FEATURES_TIPS_TUTORIAL_BROWSER>>,
    <<ecodes.KEY_SUBTITLE, ConsumerControlCode.CLOSED_CAPTION>>,
    <<ecodes.KEY_VCR, ConsumerControlCode.MEDIA_SELECT_VCR>>,
    <<ecodes.KEY_CAMERA, ConsumerControlCode.SNAPSHOT>>,
    <<ecodes.KEY_RED, ConsumerControlCode.RED_MENU_BUTTON>>,
    <<ecodes.KEY_GREEN, ConsumerControlCode.GREEN_MENU_BUTTON>>,
    <<ecodes.KEY_BLUE, ConsumerControlCode.BLUE_MENU_BUTTON>>,
    <<ecodes.KEY_YELLOW, ConsumerControlCode.YELLOW_MENU_BUTTON>>,
    <<ecodes.KEY_ASPECT_RATIO, ConsumerControlCode.ASPECT>>,
    <<ecodes.KEY_BRIGHTNESSUP, ConsumerControlCode.DISPLAY_BRIGHTNESS_INCREMENT>>,
    <<ecodes.KEY_BRIGHTNESSDOWN, ConsumerControlCode.DISPLAY_BRIGHTNESS_DECREMENT>>,
    <<ecodes.KEY_BRIGHTNESS_TOGGLE, ConsumerControlCode.DISPLAY_BACKLIGHT_TOGGLE>>,
    <<ecodes.KEY_BRIGHTNESS_MIN, ConsumerControlCode.DISPLAY_SET_BRIGHTNESS_TO_MINIMUM>>,
    <<ecodes.KEY_BRIGHTNESS_MAX, ConsumerControlCode.DISPLAY_SET_BRIGHTNESS_TO_MAXIMUM>>,
    <<ecodes.KEY_BRIGHTNESS_AUTO, ConsumerControlCode.DISPLAY_SET_AUTO_BRIGHTNESS>>,
    <<ecodes.KEY_CAMERA_ACCESS_ENABLE, ConsumerControlCode.CAMERA_ACCESS_ENABLED>>,
    <<ecodes.KEY_CAMERA_ACCESS_DISABLE, ConsumerControlCode.CAMERA_ACCESS_DISABLED>>,
    <<ecodes.KEY_CAMERA_ACCESS_TOGGLE, ConsumerControlCode.CAMERA_ACCESS_TOGGLE>>,
    <<ecodes.KEY_KBDILLUMUP, ConsumerControlCode.KEYBOARD_BRIGHTNESS_INCREMENT>>,
    <<ecodes.KEY_KBDILLUMDOWN, ConsumerControlCode.KEYBOARD_BRIGHTNESS_DECREMENT>>,
    <<ecodes.KEY_KBDILLUMTOGGLE, ConsumerControlCode.KEYBOARD_BACKLIGHT_OOC>>,
    <<ecodes.KEY_VIDEO_NEXT, ConsumerControlCode.MODE_STEP>>,
    <<ecodes.KEY_LAST, ConsumerControlCode.RECALL_LAST>>,
    <<ecodes.KEY_PC, ConsumerControlCode.MEDIA_SELECT_COMPUTER>>,
    <<ecodes.KEY_TV, ConsumerControlCode.MEDIA_SELECT_TV>>,
    <<ecodes.KEY_WWW, ConsumerControlCode.AL_INTERNET_BROWSER>>,
    <<ecodes.KEY_DVD, ConsumerControlCode.MEDIA_SELECT_DVD>>,
    <<ecodes.KEY_PHONE, ConsumerControlCode.MEDIA_SELECT_TELEPHONE>>,
    <<ecodes.KEY_PROGRAM, ConsumerControlCode.MEDIA_SELECT_PROGRAM_GUIDE>>,
    <<ecodes.KEY_VIDEOPHONE, ConsumerControlCode.MEDIA_SELECT_VIDEO_PHONE>>,
    <<ecodes.KEY_GAMES, ConsumerControlCode.MEDIA_SELECT_GAMES>>,
    <<ecodes.KEY_MEMO, ConsumerControlCode.MEDIA_SELECT_MESSAGES>>,
    <<ecodes.KEY_CD, ConsumerControlCode.MEDIA_SELECT_CD>>,
    <<ecodes.KEY_TUNER, ConsumerControlCode.MEDIA_SELECT_TUNER>>,
    <<ecodes.KEY_EXIT, ConsumerControlCode.AC_EXIT>>,
    <<ecodes.KEY_HELP, ConsumerControlCode.AL_INTEGRATED_HELP_CENTER>>,
    <<ecodes.KEY_TAPE, ConsumerControlCode.MEDIA_SELECT_TAPE>>,
    <<ecodes.KEY_TV2, ConsumerControlCode.MEDIA_SELECT_CABLE>>,
    <<ecodes.KEY_SAT, ConsumerControlCode.MEDIA_SELECT_SATELLITE>>,
    <<ecodes.KEY_PVR, ConsumerControlCode.MEDIA_SELECT_HOME>>,
    <<ecodes.KEY_CHANNELUP, ConsumerControlCode.CHANNEL_INCREMENT>>,
    <<ecodes.KEY_CHANNELDOWN, ConsumerControlCode.CHANNEL_DECREMENT>>,
    <<ecodes.KEY_VCR2, ConsumerControlCode.VCR_PLUS>>,
    <<ecodes.KEY_PLAY, ConsumerControlCode.PLAY>>,
    <<ecodes.KEY_PAUSE, ConsumerControlCode.PAUSE>>,
    <<ecodes.KEY_RECORD, ConsumerControlCode.RECORD>>,
    <<ecodes.KEY_FASTFORWARD, ConsumerControlCode.FAST_FORWARD>>,
    <<ecodes.KEY_REWIND, ConsumerControlCode.REWIND>>,
    <<ecodes.KEY_NEXTSONG, ConsumerControlCode.SCAN_NEXT_TRACK>>,
    <<ecodes.KEY_PREVIOUSSONG, ConsumerControlCode.SCAN_PREVIOUS_TRACK>>,
    <<ecodes.KEY_STOPCD, ConsumerControlCode.STOP>>,
    <<ecodes.KEY_EJECTCD, ConsumerControlCode.EJECT>>,
    <<ecodes.KEY_MEDIA_REPEAT, ConsumerControlCode.REPEAT>>,
    <<ecodes.KEY_SHUFFLE, ConsumerControlCode.RANDOM_PLAY>>,
    <<ecodes.KEY_SLOW, ConsumerControlCode.SLOW>>,
    <<ecodes.KEY_PLAYPAUSE, ConsumerControlCode.PLAY_PAUSE>>,
    <<ecodes.KEY_VOICECOMMAND, ConsumerControlCode.VOICE_COMMAND>>,
    <<ecodes.KEY_DICTATE, ConsumerControlCode.START_OR_STOP_VOICE_DICTATION_SESSION>>,
    <<ecodes.KEY_EMOJI_PICKER, ConsumerControlCode.INVOKE_OR_DISMISS_EMOJI_PICKER>>,
    <<ecodes.KEY_MUTE, ConsumerControlCode.MUTE>>,
    <<ecodes.KEY_BASSBOOST, ConsumerControlCode.BASS_BOOST>>,
    <<ecodes.KEY_VOLUMEUP, ConsumerControlCode.VOLUME_INCREMENT>>,
    <<ecodes.KEY_VOLUMEDOWN, ConsumerControlCode.VOLUME_DECREMENT>>,
    <<ecodes.KEY_BUTTONCONFIG, ConsumerControlCode.AL_LAUNCH_BUTTON_CONFIGURATION_TOOL>>,
    <<ecodes.KEY_BOOKMARKS, ConsumerControlCode.AC_BOOKMARKS>>,
    <<ecodes.KEY_CONFIG, ConsumerControlCode.AL_CONSUMER_CONTROL_CONFIGURATION_TOOL>>,
    <<ecodes.KEY_WORDPROCESSOR, ConsumerControlCode.AL_WORD_PROCESSOR>>,
    <<ecodes.KEY_EDITOR, ConsumerControlCode.AL_TEXT_EDITOR>>,
    <<ecodes.KEY_SPREADSHEET, ConsumerControlCode.AL_SPREADSHEET>>,
    <<ecodes.KEY_GRAPHICSEDITOR, ConsumerControlCode.AL_GRAPHICS_EDITOR>>,
    <<ecodes.KEY_PRESENTATION, ConsumerControlCode.AL_PRESENTATION_APP>>,
    <<ecodes.KEY_DATABASE, ConsumerControlCode.AL_DATABASE_APP>>,
    <<ecodes.KEY_MAIL, ConsumerControlCode.AL_EMAIL_READER>>,
    <<ecodes.KEY_NEWS, ConsumerControlCode.AL_NEWSREADER>>,
    <<ecodes.KEY_VOICEMAIL, ConsumerControlCode.AL_VOICEMAIL>>,
    <<ecodes.KEY_ADDRESSBOOK, ConsumerControlCode.AL_CONTACTS_ADDRESS_BOOK>>,
    <<ecodes.KEY_CALENDAR, ConsumerControlCode.AL_CALENDAR_SCHEDULE>>,
    <<ecodes.KEY_TASKMANAGER, ConsumerControlCode.AL_TASK_PROJECT_MANAGER>>,
    <<ecodes.KEY_JOURNAL, ConsumerControlCode.AL_LOG_JOURNAL_TIMECARD>>,
    <<ecodes.KEY_FINANCE, ConsumerControlCode.AL_CHECKBOOK_FINANCE>>,
    <<ecodes.KEY_CALC, ConsumerControlCode.AL_CALCULATOR>>,
    <<ecodes.KEY_PLAYER, ConsumerControlCode.AL_AV_CAPTURE_PLAYBACK>>,
    <<ecodes.KEY_FILE, ConsumerControlCode.AL_FILE_BROWSER>>,
    <<ecodes.KEY_CHAT, ConsumerControlCode.AL_NETWORK_CHAT>>,
    <<ecodes.KEY_LOGOFF, ConsumerControlCode.AL_LOGOFF>>,
    <<ecodes.KEY_COFFEE, ConsumerControlCode.AL_TERMINAL_LOCK_SCREENSAVER>>,
    <<ecodes.KEY_CONTROLPANEL, ConsumerControlCode.AL_CONTROL_PANEL>>,
    <<ecodes.KEY_APPSELECT, ConsumerControlCode.AL_SELECT_TASK_APPLICATION>>,
    <<ecodes.KEY_NEXT, ConsumerControlCode.AL_NEXT_TASK_APPLICATION>>,
    <<ecodes.KEY_PREVIOUS, ConsumerControlCode.AL_PREVIOUS_TASK_APPLICATION>>,
    <<ecodes.KEY_DOCUMENTS, ConsumerControlCode.AL_DOCUMENTS>>,
    <<ecodes.KEY_SPELLCHECK, ConsumerControlCode.AL_SPELL_CHECK>>,
    <<ecodes.KEY_KEYBOARD, ConsumerControlCode.AL_KEYBOARD_LAYOUT>>,
    <<ecodes.KEY_SCREENSAVER, ConsumerControlCode.AL_SCREEN_SAVER>>,
    <<ecodes.KEY_IMAGES, ConsumerControlCode.AL_IMAGE_BROWSER>>,
    <<ecodes.KEY_AUDIO, ConsumerControlCode.AL_AUDIO_BROWSER>>,
    <<ecodes.KEY_VIDEO, ConsumerControlCode.AL_MOVIE_BROWSER>>,
    <<ecodes.KEY_MESSENGER, ConsumerControlCode.AL_INSTANT_MESSAGING>>,
    <<ecodes.KEY_ASSISTANT, ConsumerControlCode.AL_CONTEXT_AWARE_DESKTOP_ASSISTANT>>,
    <<ecodes.KEY_NEW, ConsumerControlCode.AC_NEW>>,
    <<ecodes.KEY_OPEN, ConsumerControlCode.AC_OPEN>>,
    <<ecodes.KEY_CLOSE, ConsumerControlCode.AC_CLOSE>>,
    <<ecodes.KEY_SAVE, ConsumerControlCode.AC_SAVE>>,
    <<ecodes.KEY_PROPS, ConsumerControlCode.AC_PROPERTIES>>,
    <<ecodes.KEY_UNDO, ConsumerControlCode.AC_UNDO>>,
    <<ecodes.KEY_COPY, ConsumerControlCode.AC_COPY>>,
    <<ecodes.KEY_CUT, ConsumerControlCode.AC_CUT>>,
    <<ecodes.KEY_PASTE, ConsumerControlCode.AC_PASTE>>,
    <<ecodes.KEY_FIND, ConsumerControlCode.AC_FIND>>,
    <<ecodes.KEY_SEARCH, ConsumerControlCode.AC_SEARCH>>,
    <<ecodes.KEY_GOTO, ConsumerControlCode.AC_GO_TO>>,
    <<ecodes.KEY_HOMEPAGE, ConsumerControlCode.AC_HOME>>,
    <<ecodes.KEY_BACK, ConsumerControlCode.AC_BACK>>,
    <<ecodes.KEY_FORWARD, ConsumerControlCode.AC_FORWARD>>,
    <<ecodes.KEY_STOP, ConsumerControlCode.AC_STOP>>,
    <<ecodes.KEY_REFRESH, ConsumerControlCode.AC_REFRESH>>,
    <<ecodes.KEY_ZOOMIN, ConsumerControlCode.AC_ZOOM_IN>>,
    <<ecodes.KEY_ZOOMOUT, ConsumerControlCode.AC_ZOOM_OUT>>,
    <<ecodes.KEY_ZOOMRESET, ConsumerControlCode.AC_ZOOM>>,
    <<ecodes.KEY_FULL_SCREEN, ConsumerControlCode.AC_VIEW_TOGGLE>>,
    <<ecodes.KEY_SCROLLUP, ConsumerControlCode.AC_SCROLL_UP>>,
    <<ecodes.KEY_SCROLLDOWN, ConsumerControlCode.AC_SCROLL_DOWN>>,
    <<ecodes.KEY_EDIT, ConsumerControlCode.AC_EDIT>>,
    <<ecodes.KEY_CANCEL, ConsumerControlCode.AC_CANCEL>>,
    <<ecodes.KEY_REDO, ConsumerControlCode.AC_REDO_REPEAT>>,
    <<ecodes.KEY_REPLY, ConsumerControlCode.AC_REPLY>>,
    <<ecodes.KEY_FORWARDMAIL, ConsumerControlCode.AC_FORWARD_MSG>>,
    <<ecodes.KEY_SEND, ConsumerControlCode.AC_SEND>>,
    <<ecodes.KEY_KBD_LAYOUT_NEXT, ConsumerControlCode.AC_NEXT_KEYBOARD_LAYOUT_SELECT>>,
    <<ecodes.KEY_ALL_APPLICATIONS, ConsumerControlCode.AC_DESKTOP_SHOW_ALL_APPLICATIONS>>,
    <<ecodes.KEY_KBDINPUTASSIST_PREV, ConsumerControlCode.KEYBOARD_INPUT_ASSIST_PREVIOUS>>,
    <<ecodes.KEY_KBDINPUTASSIST_NEXT, ConsumerControlCode.KEYBOARD_INPUT_ASSIST_NEXT>>,
    <<ecodes.KEY_KBDINPUTASSIST_PREVGROUP, ConsumerControlCode.KEYBOARD_INPUT_ASSIST_PREVIOUS_GROUP>>,
    <<ecodes.KEY_KBDINPUTASSIST_NEXTGROUP, ConsumerControlCode.KEYBOARD_INPUT_ASSIST_NEXT_GROUP>>,
    <<ecodes.KEY_KBDINPUTASSIST_ACCEPT, ConsumerControlCode.KEYBOARD_INPUT_ASSIST_ACCEPT>>,
    <<ecodes.KEY_KBDINPUTASSIST_CANCEL, ConsumerControlCode.KEYBOARD_INPUT_ASSIST_CANCEL>>,
    <<ecodes.KEY_SCALE, ConsumerControlCode.AC_DESKTOP_SHOW_ALL_WINDOWS>>
  >>

(* The members of the set literals of the source. *)
_CONSUMER_KEYS ==
  {
    ecodes.KEY_POWER, ecodes.KEY_RESTART, ecodes.KEY_SLEEP, ecodes.BTN_MISC, ecodes.KEY_MENU,
    ecodes.KEY_SELECT, ecodes.KEY_INFO, ecodes.KEY_SUBTITLE, ecodes.KEY_VCR, ecodes.KEY_CAMERA,
    ecodes.KEY_RED, ecodes.KEY_GREEN, ecodes.KEY_BLUE, ecodes.KEY_YELLOW,
    ecodes.KEY_ASPECT_RATIO, ecodes.KEY_BRIGHTNESSUP, ecodes.KEY_BRIGHTNESSDOWN,
    ecodes.KEY_BRIGHTNESS_TOGGLE, ecodes.KEY_BRIGHTNESS_MIN, ecodes.KEY_BRIGHTNESS_MAX,
    ecodes.KEY_BRIGHTNESS_AUTO, ecodes.KEY_CAMERA_ACCESS_ENABLE,
    ecodes.KEY_CAMERA_ACCESS_DISABLE, ecodes.KEY_CAMERA_ACCESS_TOGGLE, ecodes.KEY_KBDILLUMUP,
    ecodes.KEY_KBDILLUMDOWN, ecodes.KEY_KBDILLUMTOGGLE, ecodes.KEY_VIDEO_NEXT, ecodes.KEY_LAST,
    ecodes.KEY_PC, ecodes.KEY_TV, ecodes.KEY_WWW, ecodes.KEY_DVD, ecodes.KEY_PHONE,
    ecodes.KEY_PROGRAM, ecodes.KEY_VIDEOPHONE, ecodes.KEY_GAMES, ecodes.KEY_MEMO,
    ecodes.KEY_CD, ecodes.KEY_TUNER, ecodes.KEY_EXIT, ecodes.KEY_HELP, ecodes.KEY_TAPE,
    ecodes.KEY_TV2, ecodes.KEY_SAT, ecodes.KEY_PVR, ecodes.KEY_CHANNELUP,
    ecodes.KEY_CHANNELDOWN, ecodes.KEY_VCR2, ecodes.KEY_PLAY, ecodes.KEY_PAUSE,
    ecodes.KEY_RECORD, ecodes.KEY_FASTFORWARD, ecodes.KEY_REWIND, ecodes.KEY_NEXTSONG,
    ecodes.KEY_PREVIOUSSONG, ecodes.KEY_STOPCD, ecodes.KEY_EJECTCD, ecodes.KEY_MEDIA_REPEAT,
    ecodes.KEY_SHUFFLE, ecodes.KEY_SLOW, ecodes.KEY_PLAYPAUSE, ecodes.KEY_VOICECOMMAND,
    ecodes.KEY_DICTATE, ecodes.KEY_EMOJI_PICKER, ecodes.KEY_MUTE, ecodes.KEY_BASSBOOST,
    ecodes.KEY_VOLUMEUP, ecodes.KEY_VOLUMEDOWN, ecodes.KEY_BUTTONCONFIG, ecodes.KEY_BOOKMARKS,
    ecodes.KEY_CONFIG, ecodes.KEY_WORDPROCESSOR, ecodes.KEY_EDITOR, ecodes.KEY_SPREADSHEET,
    ecodes.KEY_GRAPHICSEDITOR, ecodes.KEY_PRESENTATION, ecodes.KEY_DATABASE, ecodes.KEY_MAIL,
    ecodes.KEY_NEWS, ecodes.KEY_VOICEMAIL, ecodes.KEY_ADDRESSBOOK, ecodes.KEY_CALENDAR,
    ecodes.KEY_TASKMANAGER, ecodes.KEY_JOURNAL, ecodes.KEY_FINANCE, ecodes.KEY_CALC,
    ecodes.KEY_PLAYER, ecodes.KEY_FILE, ecodes.KEY_CHAT, ecodes.KEY_LOGOFF, ecodes.KEY_COFFEE,
    ecodes.KEY_CONTROLPANEL, ecodes.KEY_APPSELECT, ecodes.KEY_NEXT, ecodes.KEY_PREVIOUS,
    ecodes.KEY_DOCUMENTS, ecodes.KEY_SPELLCHECK, ecodes.KEY_KEYBOARD, ecodes.KEY_SCREENSAVER,
    ecodes.KEY_IMAGES, ecodes.KEY_AUDIO, ecodes.KEY_VIDEO, ecodes.KEY_MESSENGER,
    ecodes.KEY_ASSISTANT, ecodes.KEY_NEW, ecodes.KEY_OPEN, ecodes.KEY_CLOSE, ecodes.KEY_SAVE,
    ecodes.KEY_PROPS, ecodes.KEY_UNDO, ecodes.KEY_COPY, ecodes.KEY_CUT, ecodes.KEY_PASTE,
    ecodes.KEY_FIND, ecodes.KEY_SEARCH, ecodes.KEY_GOTO, ecodes.KEY_HOMEPAGE, ecodes.KEY_BACK,
    ecodes.KEY_FORWARD, ecodes.KEY_STOP, ecodes.KEY_REFRESH, ecodes.KEY_ZOOMIN,
    ecodes.KEY_ZOOMOUT, ecodes.KEY_ZOOMRESET, ecodes.KEY_FULL_SCREEN, ecodes.KEY_SCROLLUP,
    ecodes.KEY_SCROLLDOWN, ecodes.KEY_EDIT, ecodes.KEY_CANCEL, ecodes.KEY_REDO,
    ecodes.KEY_REPLY, ecodes.KEY_FORWARDMAIL, ecodes.KEY_SEND, ecodes.KEY_KBD_LAYOUT_NEXT,
    ecodes.KEY_ALL_APPLICATIONS, ecodes.KEY_KBDINPUTASSIST_PREV,
    ecodes.KEY_KBDINPUTASSIST_NEXT, ecodes.KEY_KBDINPUTASSIST_PREVGROUP,
    ecodes.KEY_KBDINPUTASSIST_NEXTGROUP, ecodes.KEY_KBDINPUTASSIST_ACCEPT,
    ecodes.KEY_KBDINPUTASSIST_CANCEL, ecodes.KEY_SCALE
  }

(* The set with the side button added to it, and not to the table. *)
_MOUSE_BUTTONS_and_side ==
  {ecodes.BTN_LEFT, ecodes.BTN_RIGHT, ecodes.BTN_MIDDLE, ecodes.BTN_SIDE}

_MOUSE_BUTTONS ==
  {
    ecodes.BTN_LEFT, ecodes.BTN_RIGHT, ecodes.BTN_MIDDLE
  }
(* A table in which a key written twice keeps the value written first. *)
RECURSIVE dict_first_wins(_, _, _)
dict_first_wins(items, lo, hi) ==
  IF lo = hi THEN items[lo][1] :> items[lo][2]
  ELSE LET mid == (lo + hi) \div 2
       IN  dict_first_wins(items, lo, mid) @@ dict_first_wins(items, mid + 1, hi)

(* dict semantics of the literal: a key written twice keeps the value written
   last. *)
RECURSIVE dict(_, _, _)
dict(items, lo, hi) ==
  IF lo = hi THEN items[lo][1] :> items[lo][2]
  ELSE LET mid == (lo + hi) \div 2
       IN  dict(items, mid + 1, hi) @@ dict(items, lo, mid)

_EVDEV_TO_HID == dict(EVDEV_TO_HID_literal, 1, Len(EVDEV_TO_HID_literal))

(* dict.get(scancode, 0) *)
dict_get_zero(d, key) == IF key \in DOMAIN d THEN d[key] ELSE 0

(* dict.get(scancode, None) *)
dict_get(d, key) == IF key \in DOMAIN d THEN d[key] ELSE None

----------------------------------------------------------------------------
(* The classes and the module whose attributes the name lookups enumerate,
   each named by a string. *)
ClassTypes == {"ecodes", "Keycode", "ConsumerControlCode", "MouseButton"}

attrs_of(class_type) ==
  CASE class_type = "ecodes" -> ecodes_attrs
    [] class_type = "Keycode" -> Keycode_attrs
    [] class_type = "ConsumerControlCode" -> ConsumerControlCode_attrs
    [] class_type = "MouseButton" -> MouseButton_attrs

namespace_of(class_type) ==
  CASE class_type = "ecodes" -> ecodes
    [] class_type = "Keycode" -> Keycode
    [] class_type = "ConsumerControlCode" -> ConsumerControlCode
    [] class_type = "MouseButton" -> MouseButton

(* dir(class_type): the attribute names, sorted. *)
RECURSIVE Names(_, _, _)
Names(attrs, lo, hi) ==
  IF lo = hi THEN <<attrs[lo][1]>>
  ELSE LET mid == (lo + hi) \div 2
       IN  Names(attrs, lo, mid) \o Names(attrs, mid + 1, hi)

dir_ecodes == Names(ecodes_attrs, 1, Len(ecodes_attrs))
dir_Keycode == Names(Keycode_attrs, 1, Len(Keycode_attrs))
dir_ConsumerControlCode ==
  Names(ConsumerControlCode_attrs, 1, Len(ConsumerControlCode_attrs))
dir_MouseButton == Names(MouseButton_attrs, 1, Len(MouseButton_attrs))

dir(class_type) ==
  CASE class_type = "ecodes" -> dir_ecodes
    [] class_type = "Keycode" -> dir_Keycode
    [] class_type = "ConsumerControlCode" -> dir_ConsumerControlCode
    [] class_type = "MouseButton" -> dir_MouseButton

(* getattr(class_type, attribute, None) *)
getattr(class_type, attribute) ==
  LET ns == namespace_of(class_type)
  IN  IF attribute \in DOMAIN ns THEN ns[attribute] ELSE None

(* attribute.startswith(("KEY_", "BTN_")) *)
KEY_BTN_names ==
  DOMAIN Namespace(ecodes_BTN_attrs, 1, Len(ecodes_BTN_attrs))
    \cup DOMAIN Namespace(ecodes_KEY_attrs, 1, Len(ecodes_KEY_attrs))

startswith_KEY_BTN(attribute) == attribute \in KEY_BTN_names

----------------------------------------------------------------------------
(* F of the value of v: v is evaluated once, however often F uses it. *)
Bind(v, F(_)) == CHOOSE r \in {F(x) : x \in {v}} : TRUE

(* functools.lru_cache.  A call is identified by its arguments; the arguments
   of the calls the code makes are numbered 1..NKeys: the attributes of
   ecodes in dir() order, then those of Keycode, of ConsumerControlCode and of
   MouseButton. *)
NKeys ==
  Len(ecodes_attrs) + Len(Keycode_attrs) + Len(ConsumerControlCode_attrs)
    + Len(MouseButton_attrs)

key_base(class_type) ==
  CASE class_type = "ecodes" -> 0
    [] class_type = "Keycode" -> Len(ecodes_attrs)
    [] class_type = "ConsumerControlCode" -> Len(ecodes_attrs) + Len(Keycode_attrs)
    [] class_type = "MouseButton" ->
         Len(ecodes_attrs) + Len(Keycode_attrs) + Len(ConsumerControlCode_attrs)

(* The place of each name of attrs[lo..hi] in attrs. *)
RECURSIVE IndexIn(_, _, _)
IndexIn(attrs, lo, hi) ==
  IF lo = hi THEN attrs[lo][1] :> lo
  ELSE LET mid == (lo + hi) \div 2
       IN  IndexIn(attrs, lo, mid) @@ IndexIn(attrs, mid + 1, hi)

index_ecodes == IndexIn(ecodes_attrs, 1, Len(ecodes_attrs))
index_Keycode == IndexIn(Keycode_attrs, 1, Len(Keycode_attrs))
index_ConsumerControlCode ==
  IndexIn(ConsumerControlCode_attrs, 1, Len(ConsumerControlCode_attrs))
index_MouseButton == IndexIn(MouseButton_attrs, 1, Len(MouseButton_attrs))

index_of(class_type) ==
  CASE class_type = "ecodes" -> index_ecodes
    [] class_type = "Keycode" -> index_Keycode
    [] class_type = "ConsumerControlCode" -> index_ConsumerControlCode
    [] class_type = "MouseButton" -> index_MouseButton

(* A cache key made of the attribute alone: a name that Keycode has, too,
   shares the entry of Keycode's. *)
make_key_attribute_only(class_type, attribute) ==
  IF attribute \in DOMAIN index_Keycode
  THEN key_base("Keycode") + index_Keycode[attribute]
  ELSE key_base(class_type) + index_of(class_type)[attribute]

(* The cache key of _cached_getattr(class_type, attribute). *)
make_key(class_type, attribute) ==
  key_base(class_type) + index_of(class_type)[attribute]

(* The cache key of _cached_dir(class_type). *)
class_key(class_type) ==
  CASE class_type = "ecodes" -> 1
    [] class_type = "Keycode" -> 2
    [] class_type = "ConsumerControlCode" -> 3
    [] class_type = "MouseButton" -> 4

class_of_key == <<"ecodes", "Keycode", "ConsumerControlCode", "MouseButton">>

(* A cache over the keys 1..n: order lists the cached keys from the least to
   the most recently used, stamp[k] is 0 when k is not cached and else grows
   with the recency of k, result[k] is the cached result of k, misses counts
   the calls that did not find their key (cache_info().misses). *)
RECURSIVE Repeat(_, _)
Repeat(n, v) ==
  IF n = 1 THEN <<v>>
  ELSE LET half == n \div 2 IN Repeat(half, v) \o Repeat(n - half, v)

lru_empty(n) ==
  [order |-> <<>>, stamp |-> Repeat(n, 0), result |-> Repeat(n, None), misses |-> 0]

lru_has(c, key) == c.stamp[key] # 0

lru_next_stamp(c) ==
  IF c.order = <<>> THEN 1 ELSE c.stamp[c.order[Len(c.order)]] + 1

(* The place of a cached key in order, which is sorted by stamp. *)
RECURSIVE lru_search(_, _, _, _)
lru_search(c, s, lo, hi) ==
  IF lo >= hi THEN lo
  ELSE Bind((lo + hi) \div 2,
            LAMBDA mid :
              IF c.stamp[c.order[mid]] >= s
              THEN lru_search(c, s, lo, mid)
              ELSE lru_search(c, s, mid + 1, hi))

lru_place(c, key) == lru_search(c, c.stamp[key], 1, Len(c.order))

(* A hit: the key becomes the most recently used. *)
lru_hit(c, key) ==
  Bind(lru_place(c, key),
       LAMBDA p :
         [c EXCEPT !.order = SubSeq(@, 1, p - 1) \o SubSeq(@, p + 1, Len(@))
                               \o <<key>>,
                   !.stamp[key] = lru_next_stamp(c)])

(* A miss: it is counted, and the wrapped function is called next. *)
lru_miss(c) == [c EXCEPT !.misses = @ + 1]

(* The result stored without looking the key up again. *)
lru_store_unchecked(c, key, result, maxsize) ==
  IF Len(c.order) >= maxsize
  THEN LET oldest == Head(c.order)
       IN  [order |-> Append(Tail(c.order), key),
            stamp |-> [c.stamp EXCEPT ![oldest] = 0, ![key] = lru_next_stamp(c)],
            result |-> [c.result EXCEPT ![oldest] = None, ![key] = result],
            misses |-> c.misses]
  ELSE [order |-> Append(c.order, key),
        stamp |-> [c.stamp EXCEPT ![key] = lru_next_stamp(c)],
        result |-> [c.result EXCEPT ![key] = result],
        misses |-> c.misses]

(* After a miss and the call of the wrapped function: the result is stored,
   unless the key was stored meanwhile; at maxsize entries the least recently
   used one makes room. *)
lru_store(c, key, result, maxsize) ==
  IF lru_has(c, key) THEN c
  ELSE IF Len(c.order) >= maxsize
  THEN LET oldest == Head(c.order)
       IN  [order |-> Append(Tail(c.order), key),
            stamp |-> [c.stamp EXCEPT ![oldest] = 0, ![key] = lru_next_stamp(c)],
            result |-> [c.result EXCEPT ![oldest] = None, ![key] = result],
            misses |-> c.misses]
  ELSE [order |-> Append(c.order, key),
        stamp |-> [c.stamp EXCEPT ![key] = lru_next_stamp(c)],
        result |-> [c.result EXCEPT ![key] = result],
        misses |-> c.misses]

(* @lru_cache(maxsize=512) and @lru_cache(), whose maxsize is 128 *)
getattr_maxsize == 512
dir_maxsize == 128

(* The two caches of the module. *)
EmptyCaches == [dir |-> lru_empty(4), getattr |-> lru_empty(NKeys)]

(* _cached_getattr(class_type, attribute) with the caches as they are: the
   caches afterwards and the value returned. *)
_cached_getattr(caches, class_type, attribute) ==
  Bind(make_key(class_type, attribute),
       LAMBDA key :
         IF lru_has(caches.getattr, key)
         THEN [caches |-> [caches EXCEPT !.getattr = lru_hit(@, key)],
               value |-> caches.getattr.result[key]]
         ELSE Bind(getattr(class_type, attribute),
                   LAMBDA result :
                     [caches |-> [caches EXCEPT
                                    !.getattr = lru_store(lru_miss(@), key, result,
                                                          getattr_maxsize)],
                      value |-> result]))

(* _cached_dir(class_type): the value is the list dir() made for the class
   the cached result stands for. *)
_cached_dir(caches, class_type) ==
  Bind(class_key(class_type),
       LAMBDA key :
         IF lru_has(caches.dir, key)
         THEN [caches |-> [caches EXCEPT !.dir = lru_hit(@, key)],
               value |-> dir(class_of_key[caches.dir.result[key]])]
         ELSE [caches |-> [caches EXCEPT
                             !.dir = lru_store(lru_miss(@), key, key, dir_maxsize)],
               value |-> dir(class_type)])

----------------------------------------------------------------------------
(* The membership test of the consumer keys, pasted where the mouse buttons
   are meant. *)
is_mouse_button_pasted(event) == event.scancode \in _CONSUMER_KEYS

is_mouse_button(event) == event.scancode \in _MOUSE_BUTTONS

is_consumer_key(event) == event.scancode \in _CONSUMER_KEYS

(* A classification that forgets the consumer keys. *)
get_hid_code_type_no_consumer(event) ==
  IF is_mouse_button(event) THEN "MouseButton" ELSE "Keycode"

get_hid_code_type(event) ==
  IF is_consumer_key(event) THEN "ConsumerControlCode"
  ELSE IF is_mouse_button(event) THEN "MouseButton"
  ELSE "Keycode"

(* The loop that goes on after a match and returns the last name that passes
   the test. *)
RECURSIVE for_attribute_last(_, _, _, _, _, _, _)
for_attribute_last(caches, class_type, names, lo, hi, target, prefixed) ==
  IF lo > hi THEN [caches |-> caches, value |-> NoName]
  ELSE IF lo = hi
  THEN Bind(_cached_getattr(caches, class_type, names[lo]),
            LAMBDA got :
              [caches |-> got.caches,
               value |-> IF got.value = target
                            /\ (prefixed => startswith_KEY_BTN(names[lo]))
                         THEN names[lo] ELSE NoName])
  ELSE Bind((lo + hi) \div 2,
            LAMBDA mid :
              Bind(for_attribute_last(caches, class_type, names, lo, mid, target,
                                      prefixed),
                   LAMBDA first :
                     Bind(for_attribute_last(first.caches, class_type, names,
                                             mid + 1, hi, target, prefixed),
                          LAMBDA second :
                            IF second.value # NoName THEN second
                            ELSE [second EXCEPT !.value = first.value])))

(* The loop `for attribute in names: if <test>: return attribute` over
   names[lo..hi], and None after it.  The test compares the cached attribute
   value with target and, when prefixed, asks for a KEY_ or BTN_ name.  The
   range is walked in order, split in halves. *)
RECURSIVE for_attribute(_, _, _, _, _, _, _)
for_attribute(caches, class_type, names, lo, hi, target, prefixed) ==
  IF lo > hi THEN [caches |-> caches, value |-> NoName]
  ELSE IF lo = hi
  THEN Bind(_cached_getattr(caches, class_type, names[lo]),
            LAMBDA got :
              [caches |-> got.caches,
               value |-> IF got.value = target
                            /\ (prefixed => startswith_KEY_BTN(names[lo]))
                         THEN names[lo] ELSE NoName])
  ELSE Bind((lo + hi) \div 2,
            LAMBDA mid :
              Bind(for_attribute(caches, class_type, names, lo, mid, target,
                                 prefixed),
                   LAMBDA first :
                     IF first.value # NoName THEN first
                     ELSE for_attribute(first.caches, class_type, names, mid + 1,
                                        hi, target, prefixed)))

find_key_name(caches, event) ==
  Bind(_cached_dir(caches, "ecodes"),
       LAMBDA names :
         for_attribute(names.caches, "ecodes", names.value, 1, Len(names.value),
                       event.scancode, TRUE))

find_usage_name(caches, event, hid_usage_id) ==
  Bind(_cached_dir(caches, get_hid_code_type(event)),
       LAMBDA names :
         for_attribute(names.caches, get_hid_code_type(event), names.value, 1,
                       Len(names.value), hid_usage_id, FALSE))

(* A translation that answers a key release like an unsupported key. *)
evdev_to_hid_drops_release(caches, event) ==
  Bind(find_key_name(caches, event),
       LAMBDA key_name :
         Bind(find_usage_name(key_name.caches, event,
                              dict_get(_EVDEV_TO_HID, event.scancode)),
              LAMBDA hid_usage_name :
                [caches |-> hid_usage_name.caches,
                 value |-> IF event.keystate = 0 THEN <<None, NoName>>
                           ELSE <<dict_get(_EVDEV_TO_HID, event.scancode),
                                  hid_usage_name.value>>,
                 key_name |-> key_name.value]))

(* The value is the pair returned; key_name is what the debug line shows. *)
evdev_to_hid(caches, event) ==
  Bind(find_key_name(caches, event),
       LAMBDA key_name :
         Bind(find_usage_name(key_name.caches, event,
                              dict_get(_EVDEV_TO_HID, event.scancode)),
              LAMBDA hid_usage_name :
                [caches |-> hid_usage_name.caches,
                 value |-> <<dict_get(_EVDEV_TO_HID, event.scancode),
                             hid_usage_name.value>>,
                 key_name |-> key_name.value]))

(* The movement added to the sample returned last, as if x, y and mwheel
   outlived the call. *)
get_mouse_movement_accumulating(event) ==
  LET last == IF log = <<>> THEN <<0, 0, 0>> ELSE log[Len(log)].ret
      input_event == event.event
  IN  IF input_event.code = ecodes.REL_X
      THEN <<last[1] + input_event.value, last[2], last[3]>>
      ELSE IF input_event.code = ecodes.REL_Y
      THEN <<last[1], last[2] + input_event.value, last[3]>>
      ELSE IF input_event.code = ecodes.REL_WHEEL
      THEN <<last[1], last[2], last[3] + input_event.value>>
      ELSE last

(* The vertical axis read into x. *)
get_mouse_movement_y_into_x(event) ==
  LET input_event == event.event
  IN  IF input_event.code = ecodes.REL_X THEN <<input_event.value, 0, 0>>
      ELSE IF input_event.code = ecodes.REL_Y THEN <<input_event.value, 0, 0>>
      ELSE IF input_event.code = ecodes.REL_WHEEL THEN <<0, 0, input_event.value>>
      ELSE <<0, 0, 0>>

(* The wheel read into y as well as into mwheel. *)
get_mouse_movement_wheel_scrolls_y(event) ==
  LET input_event == event.event
  IN  IF input_event.code = ecodes.REL_X THEN <<input_event.value, 0, 0>>
      ELSE IF input_event.code = ecodes.REL_Y THEN <<0, input_event.value, 0>>
      ELSE IF input_event.code = ecodes.REL_WHEEL
      THEN <<0, input_event.value, input_event.value>>
      ELSE <<0, 0, 0>>

get_mouse_movement(event) ==
  LET input_event == event.event
  IN  IF input_event.code = ecodes.REL_X THEN <<input_event.value, 0, 0>>
      ELSE IF input_event.code = ecodes.REL_Y THEN <<0, input_event.value, 0>>
      ELSE IF input_event.code = ecodes.REL_WHEEL THEN <<0, 0, input_event.value>>
      ELSE <<0, 0, 0>>


----------------------------------------------------------------------------
(* The events the functions take.  A key event carries its scan code and its
   direction; a relative-axis event wraps the input event with the axis code
   and the signed value. *)
KeyEvent(scancode, keystate) == [scancode |-> scancode, keystate |-> keystate]

RelEvent(code, value) == [event |-> [code |-> code, value |-> value]]

(* KeyEvent.key_up, KeyEvent.key_down, KeyEvent.key_hold *)
KeyStates == {0, 1, 2}

(* The scan codes run from 0 to MaxScanCode, the axis codes from 0 to MaxAxis,
   the values of an axis from -MaxValue to MaxValue. *)
MaxScanCode == 767
MaxAxis == 8
MaxValue == 2

(* The longest sequence of calls, of motion events, and of calls that follow
   the first one of a table walk. *)
MaxCalls == 2
MaxEvents == 2
MaxFollowing == 1

Call(call, event, hid_usage_id, ret) ==
  [call |-> call, event |-> event, hid_usage_id |-> hid_usage_id, ret |-> ret]

EvdevToHid(event) ==
  \E r \in {evdev_to_hid(memo, event)} :
      /\ memo' = r.caches
      /\ log' = Append(log, Call("evdev_to_hid", event, None, r.value))
      /\ UNCHANGED threads

FindKeyName(event) ==
  \E r \in {find_key_name(memo, event)} :
      /\ memo' = r.caches
      /\ log' = Append(log, Call("find_key_name", event, None, r.value))
      /\ UNCHANGED threads

FindUsageName(event, hid_usage_id) ==
  \E r \in {find_usage_name(memo, event, hid_usage_id)} :
      /\ memo' = r.caches
      /\ log' = Append(log, Call("find_usage_name", event, hid_usage_id, r.value))
      /\ UNCHANGED threads

GetHidCodeType(event) ==
  /\ log' = Append(log, Call("get_hid_code_type", event, None,
                             get_hid_code_type(event)))
  /\ UNCHANGED <<memo, threads>>

GetMouseMovement(event) ==
  /\ log' = Append(log, Call("get_mouse_movement", event, None,
                             get_mouse_movement(event)))
  /\ UNCHANGED <<memo, threads>>

Init ==
  /\ memo = EmptyCaches
  /\ log = <<>>
  /\ threads = <<>>

(* Sequences of calls on a few scan codes: one of the two keys the table names
   twice, a mouse button, and a scan code that has neither a name nor a usage.
   The translation and the classification take them in every direction, the
   name lookups as key presses. *)
SomeScanCodes == {ecodes.KEY_POWER, ecodes.BTN_LEFT, 84}

SomeKeyEvents == {KeyEvent(s, k) : s \in SomeScanCodes, k \in KeyStates}

SomeKeyPresses == {KeyEvent(s, 1) : s \in SomeScanCodes}

Next ==
  /\ Len(log) < MaxCalls
  /\ \/ \E event \in SomeKeyEvents : EvdevToHid(event)
     \/ \E event \in SomeKeyPresses : FindKeyName(event)
     \/ \E event \in SomeKeyPresses :
          FindUsageName(event, dict_get(_EVDEV_TO_HID, event.scancode))
     \/ \E event \in SomeKeyEvents : GetHidCodeType(event)

Spec == Init /\ [][Next]_vars

(* One call on every scan code, from empty caches, and after a translation
   the translation of a keyboard key. *)
FollowingScanCodes == {ecodes.KEY_A}

NextTable ==
  \/ /\ log = <<>>
     /\ \E s \in 0..MaxScanCode : EvdevToHid(KeyEvent(s, 1))
  \/ /\ log = <<>>
     /\ \E s \in 0..MaxScanCode : GetHidCodeType(KeyEvent(s, 1))
  \/ /\ log # <<>>
     /\ log[1].call = "evdev_to_hid"
     /\ Len(log) <= MaxFollowing
     /\ \E s \in FollowingScanCodes : EvdevToHid(KeyEvent(s, 1))

SpecTable == Init /\ [][NextTable]_vars

(* Sequences of calls on the two scan codes the literal of the table names
   twice, in every direction. *)
TwiceNamedEvents ==
  {KeyEvent(s, k) : s \in {ecodes.KEY_POWER, ecodes.KEY_PAUSE}, k \in KeyStates}

NextTwice ==
  /\ Len(log) < MaxCalls
  /\ \/ \E event \in TwiceNamedEvents : EvdevToHid(event)
     \/ \E event \in TwiceNamedEvents : GetHidCodeType(event)

SpecTwice == Init /\ [][NextTwice]_vars

(* Sequences of relative-axis events. *)
RelEvents == {RelEvent(c, v) : c \in 0..MaxAxis, v \in (-MaxValue)..MaxValue}

NextMotion ==
  /\ Len(log) < MaxEvents
  /\ \E event \in RelEvents : GetMouseMovement(event)

SpecMotion == Init /\ [][NextMotion]_vars

----------------------------------------------------------------------------
(* Calls made by several threads at once.  A thread runs one call after the
   other; a call is a sequence of steps, and the steps of the threads
   interleave.  What a step does to a cache is atomic: the lookup of a key,
   which on a hit makes the key the most recently used one and on a miss
   counts the miss, and after a miss the storing of the result of the wrapped
   function, which looks the key up again.  What a thread does with its own
   variables after such a step belongs to the step. *)
Threads == {1, 2}

(* The calls a thread may make. *)
MaxThreadCalls == 1

(* A thread between two calls, after n of them. *)
Idle(n) ==
  [pc |-> "idle", calls |-> n, call |-> "", event |-> KeyEvent(0, 0),
   hid_usage_id |-> None, function |-> "", class_type |-> "", names |-> "",
   i |-> 0, key_name |-> NoName]

ShortCalls ==
  {[call |-> "find_key_name", event |-> KeyEvent(ecodes.BTN_1, 1),
    hid_usage_id |-> None],
   [call |-> "find_usage_name", event |-> KeyEvent(ecodes.BTN_LEFT, 1),
    hid_usage_id |-> MouseButton.LEFT]}

(* The first thread translates a mouse button or looks names up, the second
   looks names up. *)
ThreadCalls(t) ==
  IF t = 1
  THEN ShortCalls
         \cup {[call |-> "evdev_to_hid", event |-> KeyEvent(ecodes.BTN_LEFT, 1),
                hid_usage_id |-> None]}
  ELSE ShortCalls

(* The call enters find_key_name, or find_usage_name when it is one of
   find_usage_name; evdev_to_hid has read the table by then. *)
Start(t, c) ==
  /\ threads[t].pc = "idle"
  /\ threads[t].calls < MaxThreadCalls
  /\ threads' =
       [threads EXCEPT
          ![t] = [@ EXCEPT
                    !.pc = "dir",
                    !.call = c.call,
                    !.event = c.event,
                    !.hid_usage_id =
                       IF c.call = "evdev_to_hid"
                       THEN dict_get(_EVDEV_TO_HID, c.event.scancode)
                       ELSE c.hid_usage_id,
                    !.function =
                       IF c.call = "find_usage_name" THEN "find_usage_name"
                       ELSE "find_key_name",
                    !.class_type =
                       IF c.call = "find_usage_name"
                       THEN get_hid_code_type(c.event) ELSE "ecodes"]]
  /\ UNCHANGED <<memo, log>>

(* The thread has the names of its class: the loop starts. *)
WithNames(th, names) == [th EXCEPT !.pc = "getattr", !.names = names, !.i = 1]

(* The thread returns name from the function it is in: evdev_to_hid goes on
   with find_usage_name, or returns the pair; find_key_name and
   find_usage_name return the name. *)
Return(th, name) ==
  IF th.call = "evdev_to_hid" /\ th.function = "find_key_name"
  THEN [th EXCEPT !.pc = "dir", !.function = "find_usage_name",
                  !.class_type = get_hid_code_type(th.event), !.key_name = name]
  ELSE Idle(th.calls + 1)

Returned(th, name) ==
  IF th.call = "evdev_to_hid" /\ th.function = "find_key_name" THEN <<>>
  ELSE IF th.call = "evdev_to_hid"
  THEN <<Call(th.call, th.event, None, <<th.hid_usage_id, name>>)>>
  ELSE <<Call(th.call, th.event, th.hid_usage_id, name)>>

(* The thread has the value of the attribute names[i]: the test of the loop,
   and the return of the attribute, the next turn of the loop, or the return
   of None after the loop. *)
Tested(th, value) ==
  LET attribute == dir(th.names)[th.i]
      target == IF th.function = "find_key_name" THEN th.event.scancode
                ELSE th.hid_usage_id
      found == /\ value = target
               /\ th.function = "find_key_name" => startswith_KEY_BTN(attribute)
  IN  IF found THEN <<Return(th, attribute), Returned(th, attribute)>>
      ELSE IF th.i < Len(dir(th.names))
      THEN <<[th EXCEPT !.i = @ + 1], <<>>>>
      ELSE <<Return(th, NoName), Returned(th, NoName)>>

(* _cached_dir(class_type), the lookup. *)
DirLookup(t) ==
  /\ threads[t].pc = "dir"
  /\ \E key \in {class_key(threads[t].class_type)} :
       IF lru_has(memo.dir, key)
       THEN /\ memo' = [memo EXCEPT !.dir = lru_hit(@, key)]
            /\ threads' = [threads EXCEPT
                             ![t] = WithNames(@, class_of_key[memo.dir.result[key]])]
       ELSE /\ memo' = [memo EXCEPT !.dir = lru_miss(@)]
            /\ threads' = [threads EXCEPT ![t].pc = "dir_store"]
  /\ UNCHANGED log

(* _cached_dir(class_type), after dir(class_type): the result is stored. *)
DirStore(t) ==
  /\ threads[t].pc = "dir_store"
  /\ \E key \in {class_key(threads[t].class_type)} :
       memo' = [memo EXCEPT !.dir = lru_store(@, key, key, dir_maxsize)]
  /\ threads' = [threads EXCEPT ![t] = WithNames(@, threads[t].class_type)]
  /\ UNCHANGED log

(* _cached_getattr(class_type, attribute), the lookup. *)
GetattrLookup(t) ==
  /\ threads[t].pc = "getattr"
  /\ \E key \in {make_key(threads[t].class_type,
                          dir(threads[t].names)[threads[t].i])} :
       IF lru_has(memo.getattr, key)
       THEN \E tested \in {Tested(threads[t], memo.getattr.result[key])} :
              /\ memo' = [memo EXCEPT !.getattr = lru_hit(@, key)]
              /\ threads' = [threads EXCEPT ![t] = tested[1]]
              /\ log' = log \o tested[2]
       ELSE /\ memo' = [memo EXCEPT !.getattr = lru_miss(@)]
            /\ threads' = [threads EXCEPT ![t].pc = "getattr_store"]
            /\ UNCHANGED log

(* _cached_getattr(class_type, attribute), after getattr(class_type,
   attribute, None): the result is stored, and returned to the loop. *)
GetattrStore(t) ==
  /\ threads[t].pc = "getattr_store"
  /\ \E attribute \in {dir(threads[t].names)[threads[t].i]} :
       \E result \in {getattr(threads[t].class_type, attribute)} :
         \E tested \in {Tested([threads[t] EXCEPT !.pc = "getattr"], result)} :
           /\ memo' = [memo EXCEPT
                         !.getattr =
                            lru_store(@, make_key(threads[t].class_type, attribute),
                                      result, getattr_maxsize)]
           /\ threads' = [threads EXCEPT ![t] = tested[1]]
           /\ log' = log \o tested[2]

InitThreads ==
  /\ memo = EmptyCaches
  /\ log = <<>>
  /\ threads = [t \in Threads |-> Idle(0)]

NextThreads ==
  \E t \in Threads :
    \/ \E c \in ThreadCalls(t) : Start(t, c)
    \/ DirLookup(t)
    \/ DirStore(t)
    \/ GetattrLookup(t)
    \/ GetattrStore(t)

SpecThreads == InitThreads /\ [][NextThreads]_vars

----------------------------------------------------------------------------
(* The name lookups on their own, from empty caches: the name of every scan
   code, and the name of every usage id, and of None, in each of the three
   classes.  An event of each class stands for the class: a keyboard key, a
   consumer key and a mouse button. *)
MaxUsageId == 716

UsagePageEvents ==
  {KeyEvent(ecodes.KEY_A, 1), KeyEvent(ecodes.KEY_MUTE, 1),
   KeyEvent(ecodes.BTN_LEFT, 1)}

NextNames ==
  /\ log = <<>>
  /\ \/ \E s \in 0..MaxScanCode : FindKeyName(KeyEvent(s, 1))
     \/ \E event \in UsagePageEvents :
          \E hid_usage_id \in (0..MaxUsageId) \cup {None} :
            FindUsageName(event, hid_usage_id)

SpecNames == Init /\ [][NextNames]_vars

----------------------------------------------------------------------------
(* The scan codes the literal of the table names more than once. *)
TwiceNamed ==
  {EVDEV_TO_HID_literal[i][1] :
     i \in {j \in 1..Len(EVDEV_TO_HID_literal) :
              \E k \in 1..(j - 1) :
                EVDEV_TO_HID_literal[k][1] = EVDEV_TO_HID_literal[j][1]}}

(* C1: every call of evdev_to_hid on a scan code that is a key of
   _EVDEV_TO_HID returns the table's value for it as the usage id, and a usage
   name that is not None. *)
C1_TableKeyTranslated ==
  \A i \in 1..Len(log) :
    (log[i].call = "evdev_to_hid"
       /\ log[i].event.scancode \in DOMAIN _EVDEV_TO_HID)
      => /\ log[i].ret[1] = _EVDEV_TO_HID[log[i].event.scancode]
         /\ log[i].ret[1] # None
         /\ log[i].ret[2] # NoName

(* A consumer key has been translated to its usage and a name of it. *)
C1_Witness ==
  \E i \in 1..Len(log) :
    /\ log[i].call = "evdev_to_hid"
    /\ log[i].event.scancode = ecodes.KEY_VOLUMEUP
    /\ log[i].ret = <<ConsumerControlCode.VOLUME_INCREMENT, "VOLUME_INCREMENT">>

(* C2: every call of evdev_to_hid on a scan code that is no key of
   _EVDEV_TO_HID returns (None, None), and the call that follows it in the
   sequence returns what the table says for its own scan code. *)
C2_UnsupportedIsNone ==
  \A i \in 1..Len(log) :
    (log[i].call = "evdev_to_hid"
       /\ log[i].event.scancode \notin DOMAIN _EVDEV_TO_HID)
      => /\ log[i].ret = <<None, NoName>>
         /\ i < Len(log) =>
              /\ log[i + 1].call = "evdev_to_hid"
              /\ log[i + 1].ret[1] =
                   dict_get(_EVDEV_TO_HID, log[i + 1].event.scancode)
              /\ log[i + 1].event.scancode \in DOMAIN _EVDEV_TO_HID
                   => log[i + 1].ret[2] # NoName

(* A scan code without usage was answered with (None, None), and the key
   after it was translated. *)
C2_Witness ==
  /\ Len(log) = 2
  /\ log[1].call = "evdev_to_hid"
  /\ log[1].event.scancode = 84
  /\ log[1].ret = <<None, NoName>>
  /\ log[2].event.scancode = ecodes.KEY_A
  /\ log[2].ret = <<Keycode.A, "A">>

(* C3: get_hid_code_type answers every scan code with exactly one of the three
   classes: ConsumerControlCode for a member of _CONSUMER_KEYS, whether or not
   it is in _MOUSE_BUTTONS, else MouseButton for a member of _MOUSE_BUTTONS,
   else Keycode. *)
C3_ClassificationPriority ==
  \A i \in 1..Len(log) :
    log[i].call = "get_hid_code_type" =>
      LET s == log[i].event.scancode
      IN  /\ log[i].ret \in {"ConsumerControlCode", "MouseButton", "Keycode"}
          /\ s \in _CONSUMER_KEYS => log[i].ret = "ConsumerControlCode"
          /\ (s \notin _CONSUMER_KEYS /\ s \in _MOUSE_BUTTONS)
               => log[i].ret = "MouseButton"
          /\ (s \notin _CONSUMER_KEYS /\ s \notin _MOUSE_BUTTONS)
               => log[i].ret = "Keycode"

(* A mouse button has been classified. *)
C3_Witness ==
  \E i \in 1..Len(log) :
    /\ log[i].call = "get_hid_code_type"
    /\ log[i].event.scancode = ecodes.BTN_RIGHT
    /\ log[i].ret = "MouseButton"

(* C10: KEY_POWER and KEY_PAUSE are the scan codes the literal names twice,
   and every call of evdev_to_hid on them, whatever call came before, returns
   the consumer usage written last, never the keyboard usage written first. *)
C10_LaterAssignmentWins ==
  /\ TwiceNamed = {ecodes.KEY_POWER, ecodes.KEY_PAUSE}
  /\ \A i \in 1..Len(log) :
       log[i].call = "evdev_to_hid" =>
         /\ log[i].event.scancode = ecodes.KEY_POWER
              => /\ log[i].ret[1] = ConsumerControlCode.POWER
                 /\ log[i].ret[1] # Keycode.POWER
         /\ log[i].event.scancode = ecodes.KEY_PAUSE
              => /\ log[i].ret[1] = ConsumerControlCode.PAUSE
                 /\ log[i].ret[1] # Keycode.PAUSE

(* KEY_PAUSE was translated after another call, to the consumer usage. *)
C10_Witness ==
  /\ Len(log) = 2
  /\ log[1].call = "evdev_to_hid"
  /\ log[2].call = "evdev_to_hid"
  /\ log[1].event.scancode = ecodes.KEY_POWER
  /\ log[1].ret[1] = ConsumerControlCode.POWER
  /\ log[2].event.scancode = ecodes.KEY_PAUSE
  /\ log[2].ret[1] = ConsumerControlCode.PAUSE

(* The calls of get_mouse_movement made so far. *)
MotionCalls == {i \in 1..Len(log) : log[i].call = "get_mouse_movement"}

(* How many fields of a sample are not zero. *)
NonZeroFields(sample) == Cardinality({k \in 1..3 : sample[k] # 0})

(* C4: get_mouse_movement on a relative-axis event with axis code c and value
   v returns (v, 0, 0) for REL_X, (0, v, 0) for REL_Y, (0, 0, v) for REL_WHEEL
   and (0, 0, 0) for every other axis code. *)
C4_MovementPerAxis ==
  \A i \in MotionCalls :
    LET c == log[i].event.event.code
        v == log[i].event.event.value
    IN  /\ c = 0 => log[i].ret = <<v, 0, 0>>
        /\ c = 1 => log[i].ret = <<0, v, 0>>
        /\ c = 8 => log[i].ret = <<0, 0, v>>
        /\ c \notin {0, 1, 8} => log[i].ret = <<0, 0, 0>>

(* A wheel step down and a move on an axis the code does not read have been
   decoded. *)
C4_Witness ==
  /\ Len(log) = 2
  /\ log[1].event = RelEvent(ecodes.REL_WHEEL, -1)
  /\ log[1].ret = <<0, 0, -1>>
  /\ log[2].event = RelEvent(ecodes.REL_HWHEEL, 2)
  /\ log[2].ret = <<0, 0, 0>>

(* C5, as stated: every sample get_mouse_movement returns has exactly one
   field that is not zero. *)
C5_ExactlyOneNonZero ==
  \A i \in MotionCalls : NonZeroFields(log[i].ret) = 1

(* C5, amended: every sample get_mouse_movement returns has at most one field
   that is not zero, and exactly one when the axis is REL_X, REL_Y or
   REL_WHEEL and the value is not zero. *)
C5_AtMostOneNonZero ==
  \A i \in MotionCalls :
    /\ NonZeroFields(log[i].ret) <= 1
    /\ NonZeroFields(log[i].ret) = 1
         <=> /\ log[i].event.event.code
                  \in {ecodes.REL_X, ecodes.REL_Y, ecodes.REL_WHEEL}
             /\ log[i].event.event.value # 0

(* A move to the left gave a sample with one field, and a move of zero on the
   same axis a sample with none. *)
C5_Witness ==
  /\ Len(log) = 2
  /\ log[1].event = RelEvent(ecodes.REL_X, -2)
  /\ NonZeroFields(log[1].ret) = 1
  /\ log[2].event = RelEvent(ecodes.REL_X, 0)
  /\ NonZeroFields(log[2].ret) = 0

(* C7: the sample of an event does not depend on the events before it: the
   same event gives the same sample wherever it stands in the sequence, the
   first place included, and an event whose value is zero gives (0, 0, 0)
   whatever moved before it. *)
C7_NoAccumulation ==
  \A i \in MotionCalls :
    /\ \A j \in MotionCalls :
         log[i].event = log[j].event => log[i].ret = log[j].ret
    /\ log[i].event.event.value = 0 => log[i].ret = <<0, 0, 0>>

(* The same move was decoded twice in a row, and gave the same sample. *)
C7_Witness ==
  /\ Len(log) = 2
  /\ log[1].event = RelEvent(ecodes.REL_Y, 2)
  /\ log[2].event = RelEvent(ecodes.REL_Y, 2)
  /\ log[2].ret = <<0, 2, 0>>

(* The calls the sequences are made of, each as its name and arguments. *)
SomeCalls ==
  {[call |-> "evdev_to_hid", event |-> e, hid_usage_id |-> None] :
     e \in SomeKeyEvents}
    \cup {[call |-> "find_key_name", event |-> e, hid_usage_id |-> None] :
            e \in SomeKeyPresses}
    \cup {[call |-> "find_usage_name", event |-> e,
           hid_usage_id |-> dict_get(_EVDEV_TO_HID, e.scancode)] :
            e \in SomeKeyPresses}

(* What a call returns when both caches are empty. *)
Uncached(c) ==
  CASE c.call = "evdev_to_hid" -> evdev_to_hid(EmptyCaches, c.event).value
    [] c.call = "find_key_name" -> find_key_name(EmptyCaches, c.event).value
    [] c.call = "find_usage_name" ->
         find_usage_name(EmptyCaches, c.event, c.hid_usage_id).value

RECURSIVE UncachedOf(_)
UncachedOf(calls) ==
  IF calls = {} THEN <<>>
  ELSE \* one call of the set, then the others
       CHOOSE table \in
         {(c :> Uncached(c)) @@ UncachedOf(calls \ {c}) :
            c \in {CHOOSE c \in calls : TRUE}} : TRUE

UncachedResults == UncachedOf(SomeCalls)

(* The calls of the log that use the caches. *)
CachedCalls ==
  {i \in 1..Len(log) :
     log[i].call \in {"evdev_to_hid", "find_key_name", "find_usage_name"}}

(* C6: every call of evdev_to_hid, find_key_name and find_usage_name in a
   sequence returns what the same call returns when both caches are empty,
   also once entries of _cached_getattr have been evicted and computed
   again. *)
C6_CacheIndependent ==
  \A i \in CachedCalls :
    log[i].ret =
      UncachedResults[[call |-> log[i].call, event |-> log[i].event,
                       hid_usage_id |-> log[i].hid_usage_id]]

(* Two translations of a scan code without name: _cached_getattr is full, and
   has missed more often than there are keys, so that some entry was evicted
   and computed again. *)
C6_Witness ==
  /\ Len(log) = 2
  /\ log[1].call = "evdev_to_hid"
  /\ log[2].call = "evdev_to_hid"
  /\ log[2].event.scancode = 84
  /\ log[2].ret = <<None, NoName>>
  /\ Len(memo.getattr.order) = getattr_maxsize
  /\ memo.getattr.misses > NKeys

(* C8: two key events with the same scan code and different directions get
   the same result from evdev_to_hid and the same class from
   get_hid_code_type, wherever they stand in a sequence of calls. *)
C8_DirectionNotConsulted ==
  \A i \in 1..Len(log) :
    \A j \in 1..Len(log) :
      (/\ log[i].call \in {"evdev_to_hid", "get_hid_code_type"}
       /\ log[j].call = log[i].call
       /\ log[j].event.scancode = log[i].event.scancode
       /\ log[j].event.keystate # log[i].event.keystate)
        => log[i].ret = log[j].ret

(* The press and the release of KEY_POWER were translated alike. *)
C8_Witness ==
  /\ Len(log) = 2
  /\ log[1] = Call("evdev_to_hid", KeyEvent(ecodes.KEY_POWER, 1), None,
                   <<ConsumerControlCode.POWER, "POWER">>)
  /\ log[2] = Call("evdev_to_hid", KeyEvent(ecodes.KEY_POWER, 0), None,
                   <<ConsumerControlCode.POWER, "POWER">>)

(* What each call of the threads returns when it runs alone, with both caches
   empty. *)
UncachedThreadResults ==
  UncachedOf({[call |-> c.call, event |-> c.event,
               hid_usage_id |-> IF c.call = "evdev_to_hid" THEN None
                                ELSE c.hid_usage_id] :
                c \in UNION {ThreadCalls(t) : t \in Threads}})

(* An entry is cached once, under its own key, and with the result the
   wrapped function has for the key. *)
CachesSound ==
  /\ \A k \in 1..Len(memo.dir.stamp) :
       /\ Cardinality({p \in 1..Len(memo.dir.order) : memo.dir.order[p] = k})
            = IF memo.dir.stamp[k] = 0 THEN 0 ELSE 1
       /\ memo.dir.stamp[k] # 0 => memo.dir.result[k] = k
  /\ \A p \in 1..Len(memo.getattr.order) :
       /\ memo.getattr.stamp[memo.getattr.order[p]] # 0
       /\ \A q \in 1..Len(memo.getattr.order) :
            memo.getattr.order[p] = memo.getattr.order[q] => p = q
  /\ \A t \in Threads :
       threads[t].pc \in {"getattr", "getattr_store"} =>
         \A i \in 1..(threads[t].i - 1) :
           LET key == make_key(threads[t].class_type, dir(threads[t].names)[i])
           IN  memo.getattr.stamp[key] # 0 =>
                 memo.getattr.result[key] =
                   getattr(threads[t].class_type, dir(threads[t].names)[i])

(* C9: whatever the interleaving of the lookups and insertions of the threads
   in the two shared caches, every call returns what the same call returns
   alone with empty caches; a race leaves the caches sound, with nothing but a
   result computed more than once. *)
C9_ThreadsAgree ==
  /\ \A i \in 1..Len(log) :
       log[i].ret =
         UncachedThreadResults[[call |-> log[i].call, event |-> log[i].event,
                                hid_usage_id |-> log[i].hid_usage_id]]
  /\ CachesSound

(* Both threads have returned, after both missed the names of MouseButton:
   _cached_dir has missed more often than it has entries. *)
C9_Witness ==
  /\ Len(log) = 2
  /\ log[1].call = "find_usage_name"
  /\ log[1].ret = "LEFT"
  /\ log[2].call = "evdev_to_hid"
  /\ log[2].ret = <<MouseButton.LEFT, "LEFT">>
  /\ memo.dir.misses > Len(memo.dir.order)

----------------------------------------------------------------------------
(* The first name of dir(class_type) whose attribute has the value code, and
   None when there is none. *)
FirstName(class_type, code) ==
  LET names == dir(class_type)
      named == {i \in 1..Len(names) : getattr(class_type, names[i]) = code}
  IN  IF named = {} THEN NoName
      ELSE names[CHOOSE i \in named : \A j \in named : i <= j]

(* C11: find_key_name returns the first name of dir(ecodes) whose value is the
   scan code, find_usage_name the first name of the dir() of the class
   get_hid_code_type picks whose value is the usage id, and each returns None
   only when no name of the namespace has the value. *)
C11_FirstNameReturned ==
  \A i \in 1..Len(log) :
    /\ log[i].call = "find_key_name"
         => log[i].ret = FirstName("ecodes", log[i].event.scancode)
    /\ log[i].call = "find_usage_name"
         => log[i].ret = FirstName(get_hid_code_type(log[i].event),
                                   log[i].hid_usage_id)

(* A usage id with three names in Keycode (ALT, LEFT_ALT, OPTION) was looked
   up and the first of them returned. *)
C11_Witness ==
  \E i \in 1..Len(log) :
    /\ log[i].call = "find_usage_name"
    /\ get_hid_code_type(log[i].event) = "Keycode"
    /\ log[i].hid_usage_id = Keycode.OPTION
    /\ log[i].ret = "ALT"

----------------------------------------------------------------------------
(* The dict literal of the source once more, item by item in the order
   written, each key with the class its value is taken from. *)
EVDEV_TO_HID_classes_literal ==
  <<
    <<ecodes.KEY_A, "Keycode">>, <<ecodes.KEY_B, "Keycode">>, <<ecodes.KEY_C, "Keycode">>,
    <<ecodes.KEY_D, "Keycode">>, <<ecodes.KEY_E, "Keycode">>, <<ecodes.KEY_F, "Keycode">>,
    <<ecodes.KEY_G, "Keycode">>, <<ecodes.KEY_H, "Keycode">>, <<ecodes.KEY_I, "Keycode">>,
    <<ecodes.KEY_J, "Keycode">>, <<ecodes.KEY_K, "Keycode">>, <<ecodes.KEY_L, "Keycode">>,
    <<ecodes.KEY_M, "Keycode">>, <<ecodes.KEY_N, "Keycode">>, <<ecodes.KEY_O, "Keycode">>,
    <<ecodes.KEY_P, "Keycode">>, <<ecodes.KEY_Q, "Keycode">>, <<ecodes.KEY_R, "Keycode">>,
    <<ecodes.KEY_S, "Keycode">>, <<ecodes.KEY_T, "Keycode">>, <<ecodes.KEY_U, "Keycode">>,
    <<ecodes.KEY_V, "Keycode">>, <<ecodes.KEY_W, "Keycode">>, <<ecodes.KEY_X, "Keycode">>,
    <<ecodes.KEY_Y, "Keycode">>, <<ecodes.KEY_Z, "Keycode">>, <<ecodes.KEY_1, "Keycode">>,
    <<ecodes.KEY_2, "Keycode">>, <<ecodes.KEY_3, "Keycode">>, <<ecodes.KEY_4, "Keycode">>,
    <<ecodes.KEY_5, "Keycode">>, <<ecodes.KEY_6, "Keycode">>, <<ecodes.KEY_7, "Keycode">>,
    <<ecodes.KEY_8, "Keycode">>, <<ecodes.KEY_9, "Keycode">>, <<ecodes.KEY_0, "Keycode">>,
    <<ecodes.KEY_ENTER, "Keycode">>, <<ecodes.KEY_ESC, "Keycode">>,
    <<ecodes.KEY_BACKSPACE, "Keycode">>, <<ecodes.KEY_TAB, "Keycode">>,
    <<ecodes.KEY_SPACE, "Keycode">>, <<ecodes.KEY_MINUS, "Keycode">>,
    <<ecodes.KEY_EQUAL, "Keycode">>, <<ecodes.KEY_LEFTBRACE, "Keycode">>,
    <<ecodes.KEY_RIGHTBRACE, "Keycode">>, <<ecodes.KEY_BACKSLASH, "Keycode">>,
    <<ecodes.KEY_SEMICOLON, "Keycode">>, <<ecodes.KEY_APOSTROPHE, "Keycode">>,
    <<ecodes.KEY_GRAVE, "Keycode">>, <<ecodes.KEY_COMMA, "Keycode">>,
    <<ecodes.KEY_DOT, "Keycode">>, <<ecodes.KEY_SLASH, "Keycode">>,
    <<ecodes.KEY_CAPSLOCK, "Keycode">>, <<ecodes.KEY_F1, "Keycode">>,
    <<ecodes.KEY_F2, "Keycode">>, <<ecodes.KEY_F3, "Keycode">>,
    <<ecodes.KEY_F4, "Keycode">>, <<ecodes.KEY_F5, "Keycode">>,
    <<ecodes.KEY_F6, "Keycode">>, <<ecodes.KEY_F7, "Keycode">>,
    <<ecodes.KEY_F8, "Keycode">>, <<ecodes.KEY_F9, "Keycode">>,
    <<ecodes.KEY_F10, "Keycode">>, <<ecodes.KEY_F11, "Keycode">>,
    <<ecodes.KEY_F12, "Keycode">>, <<ecodes.KEY_SYSRQ, "Keycode">>,
    <<ecodes.KEY_SCROLLLOCK, "Keycode">>, <<ecodes.KEY_PAUSE, "Keycode">>,
    <<ecodes.KEY_INSERT, "Keycode">>, <<ecodes.KEY_HOME, "Keycode">>,
    <<ecodes.KEY_PAGEUP, "Keycode">>, <<ecodes.KEY_DELETE, "Keycode">>,
    <<ecodes.KEY_END, "Keycode">>, <<ecodes.KEY_PAGEDOWN, "Keycode">>,
    <<ecodes.KEY_RIGHT, "Keycode">>, <<ecodes.KEY_LEFT, "Keycode">>,
    <<ecodes.KEY_DOWN, "Keycode">>, <<ecodes.KEY_UP, "Keycode">>,
    <<ecodes.KEY_NUMLOCK, "Keycode">>, <<ecodes.KEY_KPSLASH, "Keycode">>,
    <<ecodes.KEY_KPASTERISK, "Keycode">>, <<ecodes.KEY_KPMINUS, "Keycode">>,
    <<ecodes.KEY_KPPLUS, "Keycode">>, <<ecodes.KEY_KPENTER, "Keycode">>,
    <<ecodes.KEY_KP1, "Keycode">>, <<ecodes.KEY_KP2, "Keycode">>,
    <<ecodes.KEY_KP3, "Keycode">>, <<ecodes.KEY_KP4, "Keycode">>,
    <<ecodes.KEY_KP5, "Keycode">>, <<ecodes.KEY_KP6, "Keycode">>,
    <<ecodes.KEY_KP7, "Keycode">>, <<ecodes.KEY_KP8, "Keycode">>,
    <<ecodes.KEY_KP9, "Keycode">>, <<ecodes.KEY_KP0, "Keycode">>,
    <<ecodes.KEY_KPDOT, "Keycode">>, <<ecodes.KEY_102ND, "Keycode">>,
    <<ecodes.KEY_COMPOSE, "Keycode">>, <<ecodes.KEY_POWER, "Keycode">>,
    <<ecodes.KEY_KPEQUAL, "Keycode">>, <<ecodes.KEY_KPCOMMA, "Keycode">>,
    <<ecodes.KEY_F13, "Keycode">>, <<ecodes.KEY_F14, "Keycode">>,
    <<ecodes.KEY_F15, "Keycode">>, <<ecodes.KEY_F16, "Keycode">>,
    <<ecodes.KEY_F17, "Keycode">>, <<ecodes.KEY_F18, "Keycode">>,
    <<ecodes.KEY_F19, "Keycode">>, <<ecodes.KEY_F20, "Keycode">>,
    <<ecodes.KEY_F21, "Keycode">>, <<ecodes.KEY_F22, "Keycode">>,
    <<ecodes.KEY_F23, "Keycode">>, <<ecodes.KEY_F24, "Keycode">>,
    <<ecodes.KEY_LEFTCTRL, "Keycode">>, <<ecodes.KEY_LEFTSHIFT, "Keycode">>,
    <<ecodes.KEY_LEFTALT, "Keycode">>, <<ecodes.KEY_LEFTMETA, "Keycode">>,
    <<ecodes.KEY_RIGHTCTRL, "Keycode">>, <<ecodes.KEY_RIGHTSHIFT, "Keycode">>,
    <<ecodes.KEY_RIGHTALT, "Keycode">>, <<ecodes.KEY_RIGHTMETA, "Keycode">>,
    <<ecodes.BTN_LEFT, "MouseButton">>, <<ecodes.BTN_RIGHT, "MouseButton">>,
    <<ecodes.BTN_MIDDLE, "MouseButton">>, <<ecodes.KEY_POWER, "ConsumerControlCode">>,
    <<ecodes.KEY_RESTART, "ConsumerControlCode">>,
    <<ecodes.KEY_SLEEP, "ConsumerControlCode">>, <<ecodes.BTN_MISC, "ConsumerControlCode">>,
    <<ecodes.KEY_MENU, "ConsumerControlCode">>,
    <<ecodes.KEY_SELECT, "ConsumerControlCode">>,
    <<ecodes.KEY_INFO, "ConsumerControlCode">>,
    <<ecodes.KEY_SUBTITLE, "ConsumerControlCode">>,
    <<ecodes.KEY_VCR, "ConsumerControlCode">>, <<ecodes.KEY_CAMERA, "ConsumerControlCode">>,
    <<ecodes.KEY_RED, "ConsumerControlCode">>, <<ecodes.KEY_GREEN, "ConsumerControlCode">>,
    <<ecodes.KEY_BLUE, "ConsumerControlCode">>,
    <<ecodes.KEY_YELLOW, "ConsumerControlCode">>,
    <<ecodes.KEY_ASPECT_RATIO, "ConsumerControlCode">>,
    <<ecodes.KEY_BRIGHTNESSUP, "ConsumerControlCode">>,
    <<ecodes.KEY_BRIGHTNESSDOWN, "ConsumerControlCode">>,
    <<ecodes.KEY_BRIGHTNESS_TOGGLE, "ConsumerControlCode">>,
    <<ecodes.KEY_BRIGHTNESS_MIN, "ConsumerControlCode">>,
    <<ecodes.KEY_BRIGHTNESS_MAX, "ConsumerControlCode">>,
    <<ecodes.KEY_BRIGHTNESS_AUTO, "ConsumerControlCode">>,
    <<ecodes.KEY_CAMERA_ACCESS_ENABLE, "ConsumerControlCode">>,
    <<ecodes.KEY_CAMERA_ACCESS_DISABLE, "ConsumerControlCode">>,
    <<ecodes.KEY_CAMERA_ACCESS_TOGGLE, "ConsumerControlCode">>,
    <<ecodes.KEY_KBDILLUMUP, "ConsumerControlCode">>,
    <<ecodes.KEY_KBDILLUMDOWN, "ConsumerControlCode">>,
    <<ecodes.KEY_KBDILLUMTOGGLE, "ConsumerControlCode">>,
    <<ecodes.KEY_VIDEO_NEXT, "ConsumerControlCode">>,
    <<ecodes.KEY_LAST, "ConsumerControlCode">>, <<ecodes.KEY_PC, "ConsumerControlCode">>,
    <<ecodes.KEY_TV, "ConsumerControlCode">>, <<ecodes.KEY_WWW, "ConsumerControlCode">>,
    <<ecodes.KEY_DVD, "ConsumerControlCode">>, <<ecodes.KEY_PHONE, "ConsumerControlCode">>,
    <<ecodes.KEY_PROGRAM, "ConsumerControlCode">>,
    <<ecodes.KEY_VIDEOPHONE, "ConsumerControlCode">>,
    <<ecodes.KEY_GAMES, "ConsumerControlCode">>, <<ecodes.KEY_MEMO, "ConsumerControlCode">>,
    <<ecodes.KEY_CD, "ConsumerControlCode">>, <<ecodes.KEY_TUNER, "ConsumerControlCode">>,
    <<ecodes.KEY_EXIT, "ConsumerControlCode">>, <<ecodes.KEY_HELP, "ConsumerControlCode">>,
    <<ecodes.KEY_TAPE, "ConsumerControlCode">>, <<ecodes.KEY_TV2, "ConsumerControlCode">>,
    <<ecodes.KEY_SAT, "ConsumerControlCode">>, <<ecodes.KEY_PVR, "ConsumerControlCode">>,
    <<ecodes.KEY_CHANNELUP, "ConsumerControlCode">>,
    <<ecodes.KEY_CHANNELDOWN, "ConsumerControlCode">>,
    <<ecodes.KEY_VCR2, "ConsumerControlCode">>, <<ecodes.KEY_PLAY, "ConsumerControlCode">>,
    <<ecodes.KEY_PAUSE, "ConsumerControlCode">>,
    <<ecodes.KEY_RECORD, "ConsumerControlCode">>,
    <<ecodes.KEY_FASTFORWARD, "ConsumerControlCode">>,
    <<ecodes.KEY_REWIND, "ConsumerControlCode">>,
    <<ecodes.KEY_NEXTSONG, "ConsumerControlCode">>,
    <<ecodes.KEY_PREVIOUSSONG, "ConsumerControlCode">>,
    <<ecodes.KEY_STOPCD, "ConsumerControlCode">>,
    <<ecodes.KEY_EJECTCD, "ConsumerControlCode">>,
    <<ecodes.KEY_MEDIA_REPEAT, "ConsumerControlCode">>,
    <<ecodes.KEY_SHUFFLE, "ConsumerControlCode">>,
    <<ecodes.KEY_SLOW, "ConsumerControlCode">>,
    <<ecodes.KEY_PLAYPAUSE, "ConsumerControlCode">>,
    <<ecodes.KEY_VOICECOMMAND, "ConsumerControlCode">>,
    <<ecodes.KEY_DICTATE, "ConsumerControlCode">>,
    <<ecodes.KEY_EMOJI_PICKER, "ConsumerControlCode">>,
    <<ecodes.KEY_MUTE, "ConsumerControlCode">>,
    <<ecodes.KEY_BASSBOOST, "ConsumerControlCode">>,
    <<ecodes.KEY_VOLUMEUP, "ConsumerControlCode">>,
    <<ecodes.KEY_VOLUMEDOWN, "ConsumerControlCode">>,
    <<ecodes.KEY_BUTTONCONFIG, "ConsumerControlCode">>,
    <<ecodes.KEY_BOOKMARKS, "ConsumerControlCode">>,
    <<ecodes.KEY_CONFIG, "ConsumerControlCode">>,
    <<ecodes.KEY_WORDPROCESSOR, "ConsumerControlCode">>,
    <<ecodes.KEY_EDITOR, "ConsumerControlCode">>,
    <<ecodes.KEY_SPREADSHEET, "ConsumerControlCode">>,
    <<ecodes.KEY_GRAPHICSEDITOR, "ConsumerControlCode">>,
    <<ecodes.KEY_PRESENTATION, "ConsumerControlCode">>,
    <<ecodes.KEY_DATABASE, "ConsumerControlCode">>,
    <<ecodes.KEY_MAIL, "ConsumerControlCode">>, <<ecodes.KEY_NEWS, "ConsumerControlCode">>,
    <<ecodes.KEY_VOICEMAIL, "ConsumerControlCode">>,
    <<ecodes.KEY_ADDRESSBOOK, "ConsumerControlCode">>,
    <<ecodes.KEY_CALENDAR, "ConsumerControlCode">>,
    <<ecodes.KEY_TASKMANAGER, "ConsumerControlCode">>,
    <<ecodes.KEY_JOURNAL, "ConsumerControlCode">>,
    <<ecodes.KEY_FINANCE, "ConsumerControlCode">>,
    <<ecodes.KEY_CALC, "ConsumerControlCode">>,
    <<ecodes.KEY_PLAYER, "ConsumerControlCode">>,
    <<ecodes.KEY_FILE, "ConsumerControlCode">>, <<ecodes.KEY_CHAT, "ConsumerControlCode">>,
    <<ecodes.KEY_LOGOFF, "ConsumerControlCode">>,
    <<ecodes.KEY_COFFEE, "ConsumerControlCode">>,
    <<ecodes.KEY_CONTROLPANEL, "ConsumerControlCode">>,
    <<ecodes.KEY_APPSELECT, "ConsumerControlCode">>,
    <<ecodes.KEY_NEXT, "ConsumerControlCode">>,
    <<ecodes.KEY_PREVIOUS, "ConsumerControlCode">>,
    <<ecodes.KEY_DOCUMENTS, "ConsumerControlCode">>,
    <<ecodes.KEY_SPELLCHECK, "ConsumerControlCode">>,
    <<ecodes.KEY_KEYBOARD, "ConsumerControlCode">>,
    <<ecodes.KEY_SCREENSAVER, "ConsumerControlCode">>,
    <<ecodes.KEY_IMAGES, "ConsumerControlCode">>,
    <<ecodes.KEY_AUDIO, "ConsumerControlCode">>,
    <<ecodes.KEY_VIDEO, "ConsumerControlCode">>,
    <<ecodes.KEY_MESSENGER, "ConsumerControlCode">>,
    <<ecodes.KEY_ASSISTANT, "ConsumerControlCode">>,
    <<ecodes.KEY_NEW, "ConsumerControlCode">>, <<ecodes.KEY_OPEN, "ConsumerControlCode">>,
    <<ecodes.KEY_CLOSE, "ConsumerControlCode">>, <<ecodes.KEY_SAVE, "ConsumerControlCode">>,
    <<ecodes.KEY_PROPS, "ConsumerControlCode">>, <<ecodes.KEY_UNDO, "ConsumerControlCode">>,
    <<ecodes.KEY_COPY, "ConsumerControlCode">>, <<ecodes.KEY_CUT, "ConsumerControlCode">>,
    <<ecodes.KEY_PASTE, "ConsumerControlCode">>, <<ecodes.KEY_FIND, "ConsumerControlCode">>,
    <<ecodes.KEY_SEARCH, "ConsumerControlCode">>,
    <<ecodes.KEY_GOTO, "ConsumerControlCode">>,
    <<ecodes.KEY_HOMEPAGE, "ConsumerControlCode">>,
    <<ecodes.KEY_BACK, "ConsumerControlCode">>,
    <<ecodes.KEY_FORWARD, "ConsumerControlCode">>,
    <<ecodes.KEY_STOP, "ConsumerControlCode">>,
    <<ecodes.KEY_REFRESH, "ConsumerControlCode">>,
    <<ecodes.KEY_ZOOMIN, "ConsumerControlCode">>,
    <<ecodes.KEY_ZOOMOUT, "ConsumerControlCode">>,
    <<ecodes.KEY_ZOOMRESET, "ConsumerControlCode">>,
    <<ecodes.KEY_FULL_SCREEN, "ConsumerControlCode">>,
    <<ecodes.KEY_SCROLLUP, "ConsumerControlCode">>,
    <<ecodes.KEY_SCROLLDOWN, "ConsumerControlCode">>,
    <<ecodes.KEY_EDIT, "ConsumerControlCode">>,
    <<ecodes.KEY_CANCEL, "ConsumerControlCode">>,
    <<ecodes.KEY_REDO, "ConsumerControlCode">>, <<ecodes.KEY_REPLY, "ConsumerControlCode">>,
    <<ecodes.KEY_FORWARDMAIL, "ConsumerControlCode">>,
    <<ecodes.KEY_SEND, "ConsumerControlCode">>,
    <<ecodes.KEY_KBD_LAYOUT_NEXT, "ConsumerControlCode">>,
    <<ecodes.KEY_ALL_APPLICATIONS, "ConsumerControlCode">>,
    <<ecodes.KEY_KBDINPUTASSIST_PREV, "ConsumerControlCode">>,
    <<ecodes.KEY_KBDINPUTASSIST_NEXT, "ConsumerControlCode">>,
    <<ecodes.KEY_KBDINPUTASSIST_PREVGROUP, "ConsumerControlCode">>,
    <<ecodes.KEY_KBDINPUTASSIST_NEXTGROUP, "ConsumerControlCode">>,
    <<ecodes.KEY_KBDINPUTASSIST_ACCEPT, "ConsumerControlCode">>,
    <<ecodes.KEY_KBDINPUTASSIST_CANCEL, "ConsumerControlCode">>,
    <<ecodes.KEY_SCALE, "ConsumerControlCode">>
  >>

(* The class of the value the dict keeps for each key. *)
_EVDEV_TO_HID_classes ==
  dict(EVDEV_TO_HID_classes_literal, 1, Len(EVDEV_TO_HID_classes_literal))

(* The usage ids of a class: the integer values of its attributes. *)
usage_ids(class_type) ==
  {attrs_of(class_type)[i][2] : i \in 1..Len(attrs_of(class_type))} \ {Obj}

(* C12: the classification sets agree with the table.  The value the table
   keeps for a key is taken from ConsumerControlCode exactly when the key is in
   _CONSUMER_KEYS, from MouseButton exactly when it is in _MOUSE_BUTTONS, and
   from Keycode otherwise; every member of the two sets is a key of the table;
   and the usage id evdev_to_hid returns for a key of the table is a usage id
   of the class get_hid_code_type returns for it, the class it was taken
   from. *)
C12_SetsAgreeWithTable ==
  /\ DOMAIN _EVDEV_TO_HID_classes = DOMAIN _EVDEV_TO_HID
  /\ \A s \in DOMAIN _EVDEV_TO_HID :
       /\ _EVDEV_TO_HID_classes[s] = "ConsumerControlCode" <=> s \in _CONSUMER_KEYS
       /\ _EVDEV_TO_HID_classes[s] = "MouseButton" <=> s \in _MOUSE_BUTTONS
       /\ _EVDEV_TO_HID_classes[s] = "Keycode"
            <=> s \notin _CONSUMER_KEYS \cup _MOUSE_BUTTONS
  /\ _CONSUMER_KEYS \cup _MOUSE_BUTTONS \subseteq DOMAIN _EVDEV_TO_HID
  /\ \A i \in 1..Len(log) :
       \A j \in 1..Len(log) :
         (/\ log[i].call = "evdev_to_hid"
          /\ log[j].call \in {"evdev_to_hid", "get_hid_code_type"}
          /\ log[j].event.scancode = log[i].event.scancode
          /\ log[i].event.scancode \in DOMAIN _EVDEV_TO_HID)
           => LET code_type == IF log[j].call = "get_hid_code_type"
                               THEN log[j].ret
                               ELSE get_hid_code_type(log[j].event)
              IN  /\ code_type = _EVDEV_TO_HID_classes[log[i].event.scancode]
                  /\ log[i].ret[1] \in usage_ids(code_type)

(* The one button among the consumer keys, BTN_MISC, has been translated to
   the consumer usage the table keeps for it. *)
C12_Witness ==
  \E i \in 1..Len(log) :
    /\ log[i].call = "evdev_to_hid"
    /\ log[i].event.scancode = ecodes.BTN_MISC
    /\ log[i].event.scancode \in _CONSUMER_KEYS
    /\ log[i].ret[1] = ConsumerControlCode.FUNCTION_BUTTONS
====
